---- MODULE Spec2Model ----
(***************************************************************************)
(* A model of cargo-bins/release-pr: the release-PR action's main run      *)
(* (src/unnamed/part_001, the current main.ts, lines 336-894), its input   *)
(* schema (src/src/schema.ts), and the pure helpers the run is built from  *)
(* (makeBranchName, the package resolver pkgid, the public-URL rewrite).   *)
(*                                                                         *)
(* Encodings.  A JavaScript value of type `false | string` is a sequence:  *)
(* <<>> is false, <<s>> is the string s.  A filesystem path is the         *)
(* sequence of its segments, an absolute one starting with the segment     *)
(* "/"; the empty path is <<>>.  Text that the code takes apart with       *)
(* regular expressions (URLs) is a sequence of one-character strings.      *)
(***************************************************************************)
EXTENDS Integers, Sequences, FiniteSets, TLC

VARIABLES
    arg,        \* harness: the argument record of the function under check
    ret,        \* harness: what the function returned
    called      \* harness: the function has been applied

fnvars == <<arg, ret, called>>

VARIABLES
    pc,         \* where the run (the async main function) stands
    inputs,     \* the action's inputs, as read by getInputs
    disk,       \* the packages of the checkout, as `cargo workspaces list` sees them
    crates,     \* main: the selected crates
    baseBranch, \* main: the branch the pull request targets
    branchName, \* main: the release branch's name (let: reassigned on rename)
    newCrates,  \* runCargoRelease: the crates read back after the release
    newVersion, \* main: the version read back after the release
    idx,        \* position of the for-of loops over crates
    guard,      \* what the latest installToolIfNotExists call did
    log,        \* every external command and API request made, in order
    outputs,    \* every setOutput call, in order
    failures,   \* every setFailed call, in order
    head,       \* git: the branch checked out ("" is the branch the run started on)
    remote,     \* git: the branch names pushed to origin, in order
    prs         \* the pull requests created, with the variables they were rendered with

runvars == <<pc, inputs, disk, crates, baseBranch, branchName, newCrates, newVersion, idx,
             guard, log, outputs, failures, head, remote, prs>>

vars == <<fnvars, runvars>>

\* ---------------------------------------------------------------- bounds

\* most packages in a workspace snapshot handed to the resolver
MaxPkgs == 3
\* most path segments after the host in an API URL
MaxSegs == 5
\* most packages in the checkout of a run
MaxRunPkgs == 2
\* highest minor version number the release tool reports to the style choice
MaxMinor == 24

\* ------------------------------------------------------------- utilities

Min(S) == CHOOSE x \in S : \A y \in S : x <= y

\* Array.prototype.join on strings
RECURSIVE Join(_, _)
Join(parts, sep) ==
    IF Len(parts) = 0 THEN ""
    ELSE IF Len(parts) = 1 THEN parts[1]
    ELSE parts[1] \o sep \o Join(Tail(parts), sep)

\* all sequences over S of length lo..hi
SeqsOf(S, lo, hi) == UNION {[1..n -> S] : n \in lo..hi}

\* -------------------------------------------------------- makeBranchName

JsFalse == <<>>

JsStr(s) == <<s>>

\* JavaScript truthiness of a `false | string`
Truthy(v) == v # <<>> /\ v[1] # ""

\* the mutant keeps every segment, empty or not
makeBranchNameNoFilter(version, crate, git) ==
    Join(<<git.branchPrefix, IF crate = <<>> THEN "" ELSE crate[1], version>>,
         git.branchSeparator)

\* [branchPrefix, crate, version].filter(_ => _).join(branchSeparator)
makeBranchName(version, crate, git) ==
    LET segs == <<JsStr(git.branchPrefix), crate, JsStr(version)>>
        kept == SelectSeq(segs, Truthy)
    IN Join([i \in 1..Len(kept) |-> kept[i][1]], git.branchSeparator)

\* ------------------------------------------------------------ paths

\* process.cwd(): the checkout the action runs in
workdir == <<"/", "ws">>

IsAbsolute(path) == Len(path) > 0 /\ path[1] = "/"

\* fold the segments of `rest` onto `stack`: "." is dropped, ".." pops a
\* segment (never the root; kept when a relative path has nothing to pop)
RECURSIVE foldSegs(_, _)
foldSegs(stack, rest) ==
    IF Len(rest) = 0 THEN stack
    ELSE LET s == Head(rest) IN
        IF s = "." THEN foldSegs(stack, Tail(rest))
        ELSE IF s = ".." THEN
            IF Len(stack) = 0 \/ stack[Len(stack)] = ".."
                THEN foldSegs(Append(stack, ".."), Tail(rest))
            ELSE IF stack[Len(stack)] = "/" THEN foldSegs(stack, Tail(rest))
            ELSE foldSegs(SubSeq(stack, 1, Len(stack) - 1), Tail(rest))
        ELSE foldSegs(Append(stack, s), Tail(rest))

\* path.normalize
normalize(path) ==
    IF IsAbsolute(path) THEN foldSegs(<<"/">>, Tail(path))
    ELSE foldSegs(<<>>, path)

\* path.resolve(from, to)
resolve(from, to) ==
    IF IsAbsolute(to) THEN foldSegs(<<"/">>, Tail(to))
    ELSE foldSegs(from, to)

\* resolve(process.cwd(), normalize(path))
realpath(path) == resolve(workdir, normalize(path))

\* ------------------------------------------------------- pkgid (resolver)

Return(selected) == [ok |-> TRUE, crates |-> selected, error |-> ""]

Throw(message) == [ok |-> FALSE, crates |-> <<>>, error |-> message]

\* the selector handed to pkgid; a field left out is "" / <<>> / FALSE
CrateArgs(name, path, releaseAll) ==
    [name |-> name, path |-> path, releaseAll |-> releaseAll]

\* the mutant matches any package once a name is given
nameMatchesAny(crate, pkg) == crate.name # ""

\* crate.name && crate.name === pkg.name
nameMatches(crate, pkg) == crate.name # "" /\ crate.name = pkg.name

\* cratePath && cratePath === pkg.path
pathMatches(cratePath, pkg) == cratePath # <<>> /\ cratePath = pkg.path

\* the mutant returns the last package that matches
lastMatch(pkgs, crate, cratePath) ==
    LET hits == {i \in 1..Len(pkgs) :
                    nameMatches(crate, pkgs[i]) \/ pathMatches(cratePath, pkgs[i])}
    IN IF hits = {} THEN 0 ELSE CHOOSE i \in hits : \A j \in hits : j <= i

\* for (const pkg of pkgs) { if (name matches || path matches) return [pkg] }
firstMatch(pkgs, crate, cratePath) ==
    LET hits == {i \in 1..Len(pkgs) :
                    nameMatches(crate, pkgs[i]) \/ pathMatches(cratePath, pkgs[i])}
    IN IF hits = {} THEN 0 ELSE Min(hits)

\* the mutant never sees a version differ
versionDiffersNever(pkg, previousVersion) == FALSE

\* pkg.version !== previousVersion
versionDiffers(pkg, previousVersion) == pkg.version # previousVersion[1]

\* the release-all loop: previousVersion is <<>> (null) or <<version>>
RECURSIVE releaseAllLoop(_, _, _, _)
releaseAllLoop(pkgs, i, previousVersion, parsed) ==
    IF i > Len(pkgs) THEN
        IF Len(parsed) = 0 THEN Throw("no good crates found") ELSE Return(parsed)
    ELSE LET pkg == pkgs[i] IN
        IF ~Truthy(previousVersion)
            THEN releaseAllLoop(pkgs, i + 1, JsStr(pkg.version), Append(parsed, pkg))
        ELSE IF versionDiffers(pkg, previousVersion)
            THEN Throw("multiple crates with different versions: crate=" \o pkg.name
                       \o " version=" \o pkg.version
                       \o " expected=" \o previousVersion[1])
        ELSE releaseAllLoop(pkgs, i + 1, previousVersion, Append(parsed, pkg))

\* the mutant does not take a lone package for granted
onlyOneCrateNever(pkgs) == FALSE

\* the mutant takes any non-empty workspace for a single crate
onlyOneCrateAtLeast(pkgs) == Len(pkgs) >= 1

\* pkgs.length === 1
onlyOneCrate(pkgs) == Len(pkgs) = 1

\* pkgid, after the workspace listing `pkgs` has been obtained
pkgidSelect(pkgs, crate) ==
    IF crate.name # "" \/ crate.path # <<>> THEN
        LET cratePath == IF crate.path # <<>> THEN realpath(crate.path) ELSE <<>>
            hit == firstMatch(pkgs, crate, cratePath)
        IN IF hit # 0 THEN Return(<<pkgs[hit]>>)
           ELSE Throw("no matching crate found")
    ELSE IF onlyOneCrate(pkgs) THEN Return(pkgs)
    ELSE IF ~crate.releaseAll
        THEN Throw("multiple crates in the workspace, but crate-release-all is false")
    ELSE releaseAllLoop(pkgs, 1, <<>>, <<>>)

\* findCrates: which fields of the selector reach pkgid
findCratesArgs(sel) ==
    IF sel.name = "" /\ sel.path = <<>> THEN CrateArgs("", <<>>, sel.releaseAll)
    ELSE IF sel.name # "" /\ sel.path = <<>> THEN CrateArgs(sel.name, <<>>, FALSE)
    ELSE IF sel.name = "" /\ sel.path # <<>> THEN CrateArgs("", sel.path, FALSE)
    ELSE CrateArgs(sel.name, sel.path, FALSE)

\* findCrates over a given workspace listing
findCratesIn(pkgs, sel) == pkgidSelect(pkgs, findCratesArgs(sel))

\* ------------------------------------------------------ public PR URL

\* the characters of the pieces URLs are built from
cHTTPS == <<"h", "t", "t", "p", "s", ":">>
cAPI == <<"a", "p", "i">>
cEXAMPLE == <<"e", "x", "a", "m", "p", "l", "e">>
cCOM == <<"c", "o", "m">>
cREPOS == <<"r", "e", "p", "o", "s">>
cACME == <<"a", "c", "m", "e">>
cWIDGET == <<"w", "i", "d", "g", "e", "t">>
cPULLS == <<"p", "u", "l", "l", "s">>
cPULL == <<"p", "u", "l", "l">>
c42 == <<"4", "2">>
cDOT == <<".">>
cSLASH == <<"/">>

Digits == {"0", "1", "2", "3", "4", "5", "6", "7", "8", "9"}

StartsWith(s, prefix) ==
    Len(s) >= Len(prefix) /\ SubSeq(s, 1, Len(prefix)) = prefix

Drop(s, n) == SubSeq(s, n + 1, Len(s))

\* index of the first "/" of s, or Len(s) + 1
firstSlash(s) ==
    LET at == {i \in 1..Len(s) : s[i] = "/"}
    IN IF at = {} THEN Len(s) + 1 ELSE Min(at)

\* new URL(url) for an absolute https URL without port, query or fragment:
\* the pathname of a URL with no path is "/"
parseURL(url) ==
    LET afterScheme == Drop(url, Len(cHTTPS) + 2)
        cut == firstSlash(afterScheme)
        path == Drop(afterScheme, cut - 1)
    IN [protocol |-> SubSeq(url, 1, Len(cHTTPS)),
        hostname |-> SubSeq(afterScheme, 1, cut - 1),
        pathname |-> IF Len(path) = 0 THEN cSLASH ELSE path]

\* URL.prototype.toString
urlToString(u) == u.protocol \o <<"/", "/">> \o u.hostname \o u.pathname

\* hostname.replace(/^api[.]/, '')
stripApi(hostname) ==
    IF StartsWith(hostname, cAPI \o cDOT) THEN Drop(hostname, 4) ELSE hostname

\* the mutant leaves the /repos/ prefix in place
stripReposKeep(pathname) == pathname

\* pathname.replace(/^[/]repos[/]/, '/')
stripRepos(pathname) ==
    IF StartsWith(pathname, cSLASH \o cREPOS \o cSLASH)
        THEN cSLASH \o Drop(pathname, Len(cREPOS) + 2)
    ELSE pathname

\* lengths k of a digit run ending the string that /pulls/ directly precedes
pullsTails(pathname) ==
    {k \in 1..Len(pathname) :
        /\ \A i \in (Len(pathname) - k + 1)..Len(pathname) : pathname[i] \in Digits
        /\ Len(pathname) - k >= Len(cPULLS) + 2
        /\ SubSeq(pathname, Len(pathname) - k - Len(cPULLS) - 1, Len(pathname) - k)
            = cSLASH \o cPULLS \o cSLASH}

\* pathname.replace(/[/]pulls[/](\d+)$/, '/pull/$1')
pullsToPull(pathname) ==
    IF pullsTails(pathname) = {} THEN pathname
    ELSE LET k == Min(pullsTails(pathname))
             n == Len(pathname)
         IN SubSeq(pathname, 1, n - k - Len(cPULLS) - 2)
                \o cSLASH \o cPULL \o cSLASH \o SubSeq(pathname, n - k + 1, n)

\* makePR: the public URL for the API URL the pull request came back with
publicUrl(url) ==
    LET u == parseURL(url)
    IN urlToString([protocol |-> u.protocol,
                    hostname |-> stripApi(u.hostname),
                    pathname |-> pullsToPull(stripRepos(u.pathname))])

RECURSIVE dotJoin(_)
dotJoin(labels) ==
    IF Len(labels) = 1 THEN Head(labels)
    ELSE Head(labels) \o cDOT \o dotJoin(Tail(labels))

RECURSIVE slashJoin(_)
slashJoin(segs) ==
    IF Len(segs) = 0 THEN <<>> ELSE cSLASH \o Head(segs) \o slashJoin(Tail(segs))

\* the text of https://<labels>/<segs>; no segments is the path "/"
apiUrl(labels, segs) ==
    cHTTPS \o <<"/", "/">> \o dotJoin(labels)
        \o (IF Len(segs) = 0 THEN cSLASH ELSE slashJoin(segs))

\* ---- packages

PkgNames == <<"widget", "gadget", "sprocket", "cog", "gear">>

\* the first package sits at the workspace root, the others under crates/
PkgPath(i) == IF i = 1 THEN workdir ELSE workdir \o <<"crates", PkgNames[i]>>

Versions == {"1.2.3", "1.3.0"}

Pkg(i, v) == [name |-> PkgNames[i], version |-> v, path |-> PkgPath(i)]

\* ============================================================== the run

\* ---- getInputs: the schema

BumpLevels == {"release", "patch", "minor", "major", "alpha", "beta", "rc"}

LowerLetters == <<"a", "b", "c", "d", "e", "f", "g", "h", "i", "j", "k", "l", "m",
                  "n", "o", "p", "q", "r", "s", "t", "u", "v", "w", "x", "y", "z">>

UpperLetters == <<"A", "B", "C", "D", "E", "F", "G", "H", "I", "J", "K", "L", "M",
                  "N", "O", "P", "Q", "R", "S", "T", "U", "V", "W", "X", "Y", "Z">>

\* the characters of the version inputs of the model
VersionChars ==
    [v \in {"minor", "MINOR", "1.3.0", "1.3", "v1.3.0", "bogus"} |->
        CASE v = "minor" -> <<"m", "i", "n", "o", "r">>
          [] v = "MINOR" -> <<"M", "I", "N", "O", "R">>
          [] v = "1.3.0" -> <<"1", ".", "3", ".", "0">>
          [] v = "1.3" -> <<"1", ".", "3">>
          [] v = "v1.3.0" -> <<"v", "1", ".", "3", ".", "0">>
          [] v = "bogus" -> <<"b", "o", "g", "u", "s">>]

CharsOf(version) == VersionChars[version]

\* the string of a sequence of characters
RECURSIVE textOf(_)
textOf(chars) == IF Len(chars) = 0 THEN "" ELSE Head(chars) \o textOf(Tail(chars))

\* String.prototype.toLowerCase, the transform of string().lowercase()
toLowerCase(chars) ==
    [i \in 1..Len(chars) |->
        IF \E k \in 1..Len(UpperLetters) : UpperLetters[k] = chars[i]
            THEN LowerLetters[CHOOSE k \in 1..Len(UpperLetters) : UpperLetters[k] = chars[i]]
        ELSE chars[i]]

\* \w
WordChars ==
    Digits \cup {LowerLetters[k] : k \in 1..Len(LowerLetters)}
           \cup {UpperLetters[k] : k \in 1..Len(UpperLetters)} \cup {"_"}

\* how many characters from position i on belong to the class
RECURSIVE runLen(_, _, _)
runLen(s, i, class) ==
    IF i <= Len(s) /\ s[i] \in class THEN 1 + runLen(s, i + 1, class) ELSE 0

\* (?:\+\w+)?$
buildMatches(t) ==
    \/ Len(t) = 0
    \/ t[1] = "+" /\ runLen(t, 2, WordChars) >= 1 /\ 1 + runLen(t, 2, WordChars) = Len(t)

\* (?:-\w+(?:[.]\d+)?)?(?:\+\w+)?$
tailMatches(t) ==
    LET w == runLen(t, 2, WordChars)
        afterWord == Drop(t, 1 + w)
        n == runLen(afterWord, 2, Digits)
        afterPre ==
            IF Len(t) > 0 /\ t[1] = "-" /\ w >= 1
                THEN IF Len(afterWord) > 0 /\ afterWord[1] = "." /\ n >= 1
                        THEN Drop(afterWord, 1 + n)
                     ELSE afterWord
            ELSE t
    IN buildMatches(afterPre)

\* \d+[.]\d+[.]\d+(?:-\w+(?:[.]\d+)?)?(?:\+\w+)?
semverMatches(s) ==
    LET d1 == runLen(s, 1, Digits)
        d2 == runLen(s, d1 + 2, Digits)
        d3 == runLen(s, d1 + d2 + 3, Digits)
    IN /\ d1 >= 1 /\ Len(s) >= d1 + 1 /\ s[d1 + 1] = "."
       /\ d2 >= 1 /\ Len(s) >= d1 + d2 + 2 /\ s[d1 + d2 + 2] = "."
       /\ d3 >= 1
       /\ tailMatches(Drop(s, d1 + d2 + d3 + 2))

\* the mutant lets any version through
versionMatchesAny(chars) == TRUE

\* version: matches(/^(?:release|patch|minor|major|alpha|beta|rc|\d+[.]\d+[.]\d+...)$/)
versionMatches(chars) == textOf(chars) \in BumpLevels \/ semverMatches(chars)

\* the mutant never asks for the exclusive field
crateExclusiveNever(crate) == FALSE

\* crate.exclusive: required (and never given) when a name or a path comes
\* together with releaseAll
crateExclusive(crate) ==
    (crate.name # "" \/ crate.path # <<>>) /\ crate.releaseAll

ExclusiveMessage == "You must either specify a crate \"name\" or \"path\" to release a single crate, or \"release-all\" to release all crates in the workspace"

\* pr.templateExclusive: required (and never given) when both a template
\* and a template file are given
templateExclusive(pr) == pr.template # "" /\ pr.templateFile # ""

TemplateExclusiveMessage == "template and templateFile are mutually exclusive"

\* SCHEMA.validate: "" when the inputs pass, the error's message otherwise
validate(raw) ==
    IF ~versionMatches(toLowerCase(CharsOf(raw.version)))
        THEN "version must match the following pattern"
    ELSE IF crateExclusive(raw.crate) THEN ExclusiveMessage
    ELSE IF templateExclusive(raw.pr) THEN TemplateExclusiveMessage
    ELSE ""

\* what SCHEMA.validate resolves to: the inputs after the schema's transforms
cast(raw) == [raw EXCEPT !.version = textOf(toLowerCase(CharsOf(@)))]

\* ---- the process runner and the tool guard

ExitCodes == {0, 1}

\* what running `<tool> --help` can do: exit with a code, or fail to launch
ProbeOutcomes == {[threw |-> FALSE, code |-> 0], [threw |-> FALSE, code |-> 1],
                  [threw |-> TRUE, code |-> 0]}

\* the mutant takes a probe that could not be launched for a present tool
toolExistsUnlessCode(outcome) == outcome.code = 0

\* the mutant takes any probe that was launched for a present tool
toolExistsIfLaunched(outcome) == ~outcome.threw

\* toolExists: try { return (await exec(name, ['--help'])) === 0 } catch { return false }
toolExists(outcome) == ~outcome.threw /\ outcome.code = 0

ExitMessage(program, exit) == program \o " exited with code " \o ToString(exit)

GuardEvent(e, cmd, outcome) == [e |-> e, cmd |-> cmd, outcome |-> outcome]

\* the mutant installs first and warns afterwards
installToolIfNotExistsThenWarn(tool, probe, probeBinstall, exit) ==
    LET p1 == GuardEvent("probe", <<tool, "--help">>, probe)
        w == GuardEvent("warning",
                        <<tool \o " is not available, attempting to install it">>,
                        probe)
        p2 == GuardEvent("probe", <<"cargo-binstall", "--help">>, probeBinstall)
        cmd == IF toolExists(probeBinstall)
                THEN <<"cargo", "binstall", "--no-confirm", tool>>
                ELSE <<"cargo", "install", tool>>
        x == GuardEvent("exec", cmd, [threw |-> FALSE, code |-> exit])
    IN IF toolExists(probe)
        THEN [tool |-> tool, events |-> <<p1>>, error |-> ""]
       ELSE [tool |-> tool, events |-> <<p1, p2, x, w>>,
             error |-> IF exit = 0 THEN "" ELSE ExitMessage("cargo", exit)]

\* installToolIfNotExists (and its copy in runSemverChecks), given what the
\* two probes and the installer do: the events in order, and the error thrown
installToolIfNotExists(tool, probe, probeBinstall, exit) ==
    LET p1 == GuardEvent("probe", <<tool, "--help">>, probe)
        w == GuardEvent("warning",
                        <<tool \o " is not available, attempting to install it">>,
                        probe)
        p2 == GuardEvent("probe", <<"cargo-binstall", "--help">>, probeBinstall)
        cmd == IF toolExists(probeBinstall)
                THEN <<"cargo", "binstall", "--no-confirm", tool>>
                ELSE <<"cargo", "install", tool>>
        x == GuardEvent("exec", cmd, [threw |-> FALSE, code |-> exit])
    IN IF toolExists(probe)
        THEN [tool |-> tool, events |-> <<p1>>, error |-> ""]
       ELSE [tool |-> tool, events |-> <<p1, w, p2, x>>,
             error |-> IF exit = 0 THEN "" ELSE ExitMessage("cargo", exit)]

NoGuard == [tool |-> "", events |-> <<>>, error |-> ""]

\* ---- small steps shared by the actions

\* a thrown value as the catch of main looks at it: its typeof, whether it
\* is an instance of Error, its message property ("" when it has none) and,
\* for a string, its text
Thrown(type, isError, message, text) ==
    [type |-> type, isError |-> isError, message |-> message, text |-> text]

\* new Error(message)
NewError(message) == Thrown("object", TRUE, message, "")

UnknownErrorMessage == "An unknown error has occurred"

\* the mutant takes every thrown string for an unknown failure
failureReportErrorsOnly(error) ==
    IF error.isError THEN error.message
    ELSE UnknownErrorMessage

\* catch (error: unknown): what setFailed is called with
failureReport(error) ==
    IF error.isError THEN error.message
    ELSE IF error.type = "string" THEN error.text
    ELSE UnknownErrorMessage

\* the mutant reports the failure and lets the run go on from where it was
FailAndGoOn(message) ==
    /\ pc' = pc
    /\ failures' = Append(failures, failureReport(NewError(message)))

\* throw new Error(message), caught by main: setFailed(...), the run ends
Fail(message) ==
    /\ pc' = "failed"
    /\ failures' = Append(failures, failureReport(NewError(message)))

Goto(next) ==
    /\ pc' = next
    /\ UNCHANGED failures

\* exit: the exit code of a command; of an API request, 0 for a response
\* and 1 for an error
Ran(kind, cmd, cwd, exit) ==
    log' = Append(log, [kind |-> kind, cmd |-> cmd, cwd |-> cwd, exit |-> exit])

\* the mutant goes on whatever the exit code
execAndSucceedLenient(cmd, cwd, exit, next) ==
    /\ Ran("exec", cmd, cwd, exit)
    /\ Goto(next)

\* execAndSucceed / execWithOutput: run, throw on a non-zero exit code
execAndSucceed(cmd, cwd, exit, next) ==
    /\ Ran("exec", cmd, cwd, exit)
    /\ IF exit = 0 THEN Goto(next) ELSE Fail(ExitMessage(cmd[1], exit))

\* one call of the tool guard at a site of the run
GuardStep(tool, next) ==
    \E probe \in ProbeOutcomes, probeBinstall \in ProbeOutcomes, exit \in ExitCodes :
        LET g == installToolIfNotExists(tool, probe, probeBinstall, exit)
        IN /\ guard' = g
           /\ IF g.error = "" THEN Goto(next) ELSE Fail(g.error)

\* the mutant loses the output
SetOutputDropped(name, value) == outputs' = outputs

SetOutput(name, value) ==
    outputs' = Append(outputs, [name |-> name, value |-> value])

\* ---- the inputs and checkouts of the runs

BranchOptsDefault == [branchPrefix |-> "release", branchSeparator |-> "/"]

\* the template inputs: none given, or both given
RunPrOptions == {[template |-> "", templateFile |-> ""],
                 [template |-> "release <%= version.actual %>", templateFile |-> "pr.ejs"]}

RunInputs ==
    [version : {"minor", "MINOR", "1.3.0", "1.3", "v1.3.0", "bogus"},
     crate : [name : {"", "widget"},
              path : {<<>>, <<"crates", "gadget">>},
              releaseAll : BOOLEAN],
     baseBranch : {"", "develop"},
     checkSemver : BOOLEAN,
     checkPackage : BOOLEAN,
     git : {BranchOptsDefault},
     pr : RunPrOptions]

\* the checkouts: 1..MaxRunPkgs packages at 1.2.3, the last of several
\* possibly at 1.3.0 already
RunSnapshots ==
    {[i \in 1..n |-> Pkg(i, IF i = n /\ odd THEN "1.3.0" ELSE "1.2.3")] :
        <<n, odd>> \in {<<m, o>> \in (1..MaxRunPkgs) \X BOOLEAN : o => m > 1}}

\* the repository's default branch, as the API reports it
DefaultBranch == "main"

\* the versions the release tool may leave behind
NewVersions == {"1.2.3", "1.3.0", "2.0.0"}

\* the API URL a created pull request comes back with
PrApiUrl == apiUrl(<<cAPI, cEXAMPLE, cCOM>>, <<cREPOS, cACME, cWIDGET, cPULLS, c42>>)

\* ---- helpers of main and runCargoRelease

\* the mutant names every branch after the whole workspace
branchCoreAll(cs) == "all"

\* (crates.length === 1 ? crates[0]?.name : 'all') ?? 'crate'
branchCore(cs) == IF Len(cs) = 1 THEN cs[1].name ELSE "all"

\* workspace_root of `cargo metadata`
workspaceRoot == workdir

\* the mutant always releases from the workspace root
releaseCwdRoot(cs) == workspaceRoot

\* (crates.length === 1 ? crates[0]?.path : null) ?? workspaceRoot
releaseCwd(cs) == IF Len(cs) = 1 THEN cs[1].path ELSE workspaceRoot

\* what `cargo release --version` may print after "cargo-release ": the
\* numbers of the dotted version, <<>> when the pattern finds none
ReportedVersions == {<<0, 22, 2>>, <<0, 23, 0>>, <<0, 25, 6>>, <<1, 0, 0>>, <<0, 25>>, <<>>}

\* semver.clean: <<>> (null) unless major.minor.patch
semverClean(parts) == IF Len(parts) = 3 THEN parts ELSE <<>>

\* semver.satisfies(v, '>=0.23.0')
MinNewStyle == <<0, 23, 0>>

\* the mutant asks for a version above 0.23.0
satisfiesMinStrict(v) ==
    \/ v[1] > MinNewStyle[1]
    \/ v[1] = MinNewStyle[1] /\ v[2] > MinNewStyle[2]
    \/ v[1] = MinNewStyle[1] /\ v[2] = MinNewStyle[2] /\ v[3] > MinNewStyle[3]

satisfiesMin(v) ==
    \/ v[1] > MinNewStyle[1]
    \/ v[1] = MinNewStyle[1] /\ v[2] > MinNewStyle[2]
    \/ v[1] = MinNewStyle[1] /\ v[2] = MinNewStyle[2] /\ v[3] >= MinNewStyle[3]

\* crVersion && semver.satisfies(crVersion, '>=0.23.0')
usesNewStyle(reported) ==
    LET crVersion == semverClean(reported)
    IN crVersion # <<>> /\ satisfiesMin(crVersion)

\* if (...) { the new style } else { the old style }: where the run goes on
releaseStyle(reported) ==
    IF usesNewStyle(reported) THEN "release.changes" ELSE "release.old"

\* the checkout after the release tool has set the version of the selected
\* packages (of all of them, or of the first only) to nv
released(pkgs, cs, nv, all) ==
    [i \in 1..Len(pkgs) |->
        IF \E j \in 1..Len(cs) : cs[j].name = pkgs[i].name /\ (all \/ j = 1)
            THEN [pkgs[i] EXCEPT !.version = nv]
        ELSE pkgs[i]]

\* the mutant reads back the first selected crate only
readBackArgsFirst(cs) == CrateArgs(cs[1].name, cs[1].path, FALSE)

\* the selector of the read-back:
\* crates.length === 1 ? {name, path} of crates[0] : {releaseAll: true}
readBackArgs(cs) ==
    IF Len(cs) = 1 THEN CrateArgs(cs[1].name, cs[1].path, FALSE)
    ELSE CrateArgs("", <<>>, TRUE)

\* the mutant lets a release that changed nothing through
sameVersionNever(new, old) == FALSE

\* newVersion === crates[0].version
sameVersion(new, old) == new = old

\* the mutant keeps the name the branch was created with
needsRenameNever(desired, actual) == FALSE

\* the mutant renames whenever the version moved at all
needsRenameAlways(desired, actual) == TRUE

\* inputs.version !== newVersion
needsRename(desired, actual) == desired # actual

IdenticalMessage == "New and old versions are identical, not proceeding"

world == <<disk, head, remote, prs>>

locals == <<crates, baseBranch, branchName, newCrates, newVersion, idx>>

\* ---- the actions: one per awaited call of main and of what it calls

Init ==
    /\ pc = "getInputs"
    /\ inputs \in RunInputs
    /\ disk \in RunSnapshots
    /\ crates = <<>>
    /\ baseBranch = ""
    /\ branchName = ""
    /\ newCrates = <<>>
    /\ newVersion = ""
    /\ idx = 1
    /\ guard = NoGuard
    /\ log = <<>>
    /\ outputs = <<>>
    /\ failures = <<>>
    /\ head = ""
    /\ remote = <<>>
    /\ prs = <<>>
    /\ arg = <<>>
    /\ ret = <<>>
    /\ called = FALSE

\* the mutant sets up the identity and the history before the selection
GetInputsThenIdentity ==
    /\ pc = "getInputs"
    /\ LET message == validate(inputs)
       IN IF message = ""
            THEN inputs' = cast(inputs) /\ Goto("setGithubUser.name")
          ELSE Fail(message) /\ UNCHANGED inputs
    /\ UNCHANGED <<fnvars, world, locals, guard, log, outputs>>

GetInputs ==
    /\ pc = "getInputs"
    /\ LET message == validate(inputs)
       IN IF message = ""
            THEN inputs' = cast(inputs) /\ Goto("findCrates")
          ELSE Fail(message) /\ UNCHANGED inputs
    /\ UNCHANGED <<fnvars, world, locals, guard, log, outputs>>

\* findCrates -> pkgid: installToolIfNotExists('cargo-workspaces')
FindCratesGuard ==
    /\ pc = "findCrates"
    /\ GuardStep("cargo-workspaces", "findCrates.list")
    /\ UNCHANGED <<fnvars, inputs, world, locals, log, outputs>>

\* the mutant leaves the checkout on another branch after the listing
FindCratesListSwitching ==
    /\ pc = "findCrates.list"
    /\ \E exit \in ExitCodes :
        /\ Ran("exec", <<"cargo", "workspaces", "list", "--json">>, <<>>, exit)
        /\ IF exit # 0 THEN Fail(ExitMessage("cargo", exit)) /\ UNCHANGED crates
           ELSE LET r == findCratesIn(disk, inputs.crate)
                IN IF r.ok THEN crates' = r.crates /\ Goto("setGithubUser.name")
                   ELSE Fail(r.error) /\ UNCHANGED crates
    /\ head' = "scratch"
    /\ UNCHANGED <<fnvars, inputs, disk, remote, prs, baseBranch, branchName, newCrates,
                   newVersion, idx, guard, outputs>>

\* findCrates -> pkgid: cargo workspaces list --json, then the selection
FindCratesList ==
    /\ pc = "findCrates.list"
    /\ \E exit \in ExitCodes :
        /\ Ran("exec", <<"cargo", "workspaces", "list", "--json">>, <<>>, exit)
        /\ IF exit # 0 THEN Fail(ExitMessage("cargo", exit)) /\ UNCHANGED crates
           ELSE LET r == findCratesIn(disk, inputs.crate)
                IN IF r.ok THEN crates' = r.crates /\ Goto("setGithubUser.name")
                   ELSE Fail(r.error) /\ UNCHANGED crates
    /\ UNCHANGED <<fnvars, inputs, world, baseBranch, branchName, newCrates, newVersion, idx,
                   guard, outputs>>

SetGithubUserName ==
    /\ pc = "setGithubUser.name"
    /\ \E exit \in ExitCodes :
        execAndSucceed(<<"git", "config", "user.name">>, <<>>, exit, "setGithubUser.email")
    /\ UNCHANGED <<fnvars, inputs, world, locals, guard, outputs>>

SetGithubUserEmail ==
    /\ pc = "setGithubUser.email"
    /\ \E exit \in ExitCodes :
        execAndSucceed(<<"git", "config", "user.email">>, <<>>, exit, "unshallowGit")
    /\ UNCHANGED <<fnvars, inputs, world, locals, guard, outputs>>

UnshallowGit ==
    /\ pc = "unshallowGit"
    /\ \E exit \in ExitCodes :
        execAndSucceed(<<"git", "fetch", "--unshallow">>, <<>>, exit, "fetchGitTags")
    /\ UNCHANGED <<fnvars, inputs, world, locals, guard, outputs>>

FetchGitTags ==
    /\ pc = "fetchGitTags"
    /\ \E exit \in ExitCodes :
        execAndSucceed(<<"git", "fetch", "--tags">>, <<>>, exit, "baseBranch")
    /\ UNCHANGED <<fnvars, inputs, world, locals, guard, outputs>>

\* inputs.baseBranch || ...: the input is truthy
UseBaseBranchInput ==
    /\ pc = "baseBranch"
    /\ inputs.baseBranch # ""
    /\ baseBranch' = inputs.baseBranch
    /\ Goto("makeBranch")
    /\ UNCHANGED <<fnvars, inputs, world, crates, branchName, newCrates, newVersion, idx,
                   guard, log, outputs>>

\* the mutant asks for the default branch and targets it, whatever the input
GetDefaultBranchAlways ==
    /\ pc = "baseBranch"
    /\ \E exit \in ExitCodes :
        /\ Ran("api", <<"GET /repos/{owner}/{repo}">>, <<>>, exit)
        /\ IF exit = 0 THEN baseBranch' = DefaultBranch /\ Goto("makeBranch")
           ELSE Fail("Not Found") /\ UNCHANGED baseBranch
    /\ UNCHANGED <<fnvars, inputs, world, crates, branchName, newCrates, newVersion, idx,
                   guard, outputs>>

\* ... || (await getDefaultBranch(octokit))
GetDefaultBranch ==
    /\ pc = "baseBranch"
    /\ inputs.baseBranch = ""
    /\ \E exit \in ExitCodes :
        /\ Ran("api", <<"GET /repos/{owner}/{repo}">>, <<>>, exit)
        /\ IF exit = 0 THEN baseBranch' = DefaultBranch /\ Goto("makeBranch")
           ELSE Fail("Not Found") /\ UNCHANGED baseBranch
    /\ UNCHANGED <<fnvars, inputs, world, crates, branchName, newCrates, newVersion, idx,
                   guard, outputs>>

\* branchName = makeBranchName(inputs.version, branchCore, inputs.git);
\* makeBranch: git switch -c
MakeBranch ==
    /\ pc = "makeBranch"
    /\ branchName' = makeBranchName(inputs.version, JsStr(branchCore(crates)), inputs.git)
    /\ \E exit \in ExitCodes :
        /\ execAndSucceed(<<"git", "switch", "-c", branchName'>>, <<>>, exit,
                          "runCargoRelease")
        /\ head' = IF exit = 0 THEN branchName' ELSE head
    /\ UNCHANGED <<fnvars, inputs, disk, remote, prs, crates, baseBranch, newCrates,
                   newVersion, idx, guard, outputs>>

\* runCargoRelease: installToolIfNotExists('cargo-release')
ReleaseGuard ==
    /\ pc = "runCargoRelease"
    /\ GuardStep("cargo-release", "release.metadata")
    /\ UNCHANGED <<fnvars, inputs, world, locals, log, outputs>>

\* runCargoRelease: cargo metadata, for the workspace root
ReleaseMetadata ==
    /\ pc = "release.metadata"
    /\ \E exit \in ExitCodes :
        execAndSucceed(<<"cargo", "metadata", "--format-version=1">>, <<>>, exit,
                       "release.version")
    /\ UNCHANGED <<fnvars, inputs, world, locals, guard, outputs>>

\* runCargoRelease: cargo release --version, which picks the style
ReleaseVersion ==
    /\ pc = "release.version"
    /\ \E exit \in ExitCodes, reported \in ReportedVersions :
        execAndSucceed(<<"cargo", "release", "--version">>, <<>>, exit,
                       releaseStyle(reported))
    /\ UNCHANGED <<fnvars, inputs, world, locals, guard, outputs>>

\* the mutant lets a failure of the changes preview end the run
ReleaseChangesFatal ==
    /\ pc = "release.changes"
    /\ \E exit \in ExitCodes :
        execAndSucceed(<<"cargo", "release", "changes">>, releaseCwd(crates), exit,
                       "release.bump")
    /\ UNCHANGED <<fnvars, inputs, world, locals, guard, outputs>>

\* new style: cargo release changes; a failure is ignored
ReleaseChanges ==
    /\ pc = "release.changes"
    /\ \E exit \in ExitCodes :
        Ran("exec", <<"cargo", "release", "changes">>, releaseCwd(crates), exit)
    /\ Goto("release.bump")
    /\ UNCHANGED <<fnvars, inputs, world, locals, guard, outputs>>

\* the mutant allows the base branch instead of the release branch
ReleaseBumpAllowBase ==
    /\ pc = "release.bump"
    /\ \E exit \in ExitCodes, nv \in NewVersions, all \in BOOLEAN :
        /\ execAndSucceed(<<"cargo", "release", "version", inputs.version, "--execute",
                            "--verbose", "--no-confirm", "--allow-branch", baseBranch>>,
                          releaseCwd(crates), exit, "release.check")
        /\ disk' = IF exit = 0 THEN released(disk, crates, nv, all) ELSE disk
    /\ UNCHANGED <<fnvars, inputs, head, remote, prs, locals, guard, outputs>>

\* the mutant bumps the selected packages one by one
ReleaseBumpPerCrate ==
    /\ pc = "release.bump"
    /\ \E exit \in ExitCodes, nv \in NewVersions :
        /\ execAndSucceed(<<"cargo", "release", "version", inputs.version, "--execute",
                            "--verbose", "--no-confirm", "--allow-branch", branchName,
                            "-p", crates[idx].name>>,
                          releaseCwd(crates), exit,
                          IF idx < Len(crates) THEN "release.bump" ELSE "release.check")
        /\ idx' = IF exit # 0 THEN idx ELSE IF idx < Len(crates) THEN idx + 1 ELSE 1
        /\ disk' = IF exit = 0 THEN released(disk, <<crates[idx]>>, nv, TRUE) ELSE disk
    /\ UNCHANGED <<fnvars, inputs, head, remote, prs, crates, baseBranch, branchName,
                   newCrates, newVersion, guard, outputs>>

\* new style: cargo release version <version> ... --allow-branch <branchName>
ReleaseBump ==
    /\ pc = "release.bump"
    /\ \E exit \in ExitCodes, nv \in NewVersions, all \in BOOLEAN :
        /\ execAndSucceed(<<"cargo", "release", "version", inputs.version, "--execute",
                            "--verbose", "--no-confirm", "--allow-branch", branchName>>,
                          releaseCwd(crates), exit, "release.check")
        /\ disk' = IF exit = 0 THEN released(disk, crates, nv, all) ELSE disk
    /\ UNCHANGED <<fnvars, inputs, head, remote, prs, locals, guard, outputs>>

\* new style: cargo check
ReleaseCheck ==
    /\ pc = "release.check"
    /\ \E exit \in ExitCodes :
        execAndSucceed(<<"cargo", "check">>, releaseCwd(crates), exit, "release.replace")
    /\ UNCHANGED <<fnvars, inputs, world, locals, guard, outputs>>

\* new style: cargo release replace
ReleaseReplace ==
    /\ pc = "release.replace"
    /\ \E exit \in ExitCodes :
        execAndSucceed(<<"cargo", "release", "replace", "--execute", "--verbose",
                         "--no-confirm">>,
                       releaseCwd(crates), exit, "release.hook")
    /\ UNCHANGED <<fnvars, inputs, world, locals, guard, outputs>>

\* new style: cargo release hook
ReleaseHook ==
    /\ pc = "release.hook"
    /\ \E exit \in ExitCodes :
        execAndSucceed(<<"cargo", "release", "hook", "--execute", "--verbose",
                         "--no-confirm">>,
                       releaseCwd(crates), exit, "release.commit")
    /\ UNCHANGED <<fnvars, inputs, world, locals, guard, outputs>>

\* new style: cargo release commit
ReleaseCommit ==
    /\ pc = "release.commit"
    /\ \E exit \in ExitCodes :
        execAndSucceed(<<"cargo", "release", "commit", "--execute", "--verbose",
                         "--no-confirm">>,
                       releaseCwd(crates), exit, "readBack")
    /\ UNCHANGED <<fnvars, inputs, world, locals, guard, outputs>>

\* old style: cargo release --execute ... --allow-branch <branchName> <version>
ReleaseOld ==
    /\ pc = "release.old"
    /\ \E exit \in ExitCodes, nv \in NewVersions, all \in BOOLEAN :
        /\ execAndSucceed(<<"cargo", "release", "--execute", "--no-push", "--no-tag",
                            "--no-publish", "--no-confirm", "--verbose",
                            "--allow-branch", branchName, inputs.version>>,
                          releaseCwd(crates), exit, "readBack")
        /\ disk' = IF exit = 0 THEN released(disk, crates, nv, all) ELSE disk
    /\ UNCHANGED <<fnvars, inputs, head, remote, prs, locals, guard, outputs>>

\* runCargoRelease -> pkgid: installToolIfNotExists('cargo-workspaces')
ReadBackGuard ==
    /\ pc = "readBack"
    /\ GuardStep("cargo-workspaces", "readBack.list")
    /\ UNCHANGED <<fnvars, inputs, world, locals, log, outputs>>

\* the mutant reads the new version from the selection made before the release
ReadBackListStale ==
    /\ pc = "readBack.list"
    /\ \E exit \in ExitCodes :
        /\ Ran("exec", <<"cargo", "workspaces", "list", "--json">>, <<>>, exit)
        /\ IF exit # 0
            THEN /\ Fail(ExitMessage("cargo", exit))
                 /\ UNCHANGED <<newCrates, newVersion, outputs>>
           ELSE LET r == Return(crates)
                IN /\ newCrates' = r.crates
                   /\ IF sameVersion(r.crates[1].version, crates[1].version)
                       THEN Fail(IdenticalMessage) /\ UNCHANGED <<newVersion, outputs>>
                      ELSE /\ newVersion' = r.crates[1].version
                           /\ SetOutput("version", r.crates[1].version)
                           /\ Goto("semver")
    /\ UNCHANGED <<fnvars, inputs, world, crates, baseBranch, branchName, idx, guard>>

\* runCargoRelease -> pkgid: the listing after the release, the new version,
\* the identical-versions test, setOutput('version')
ReadBackList ==
    /\ pc = "readBack.list"
    /\ \E exit \in ExitCodes :
        /\ Ran("exec", <<"cargo", "workspaces", "list", "--json">>, <<>>, exit)
        /\ IF exit # 0
            THEN /\ Fail(ExitMessage("cargo", exit))
                 /\ UNCHANGED <<newCrates, newVersion, outputs>>
           ELSE LET r == pkgidSelect(disk, readBackArgs(crates))
                IN IF ~r.ok
                    THEN Fail(r.error) /\ UNCHANGED <<newCrates, newVersion, outputs>>
                   ELSE /\ newCrates' = r.crates
                        /\ IF sameVersion(r.crates[1].version, crates[1].version)
                            THEN Fail(IdenticalMessage) /\ UNCHANGED <<newVersion, outputs>>
                           ELSE /\ newVersion' = r.crates[1].version
                                /\ SetOutput("version", r.crates[1].version)
                                /\ Goto("semver")
    /\ UNCHANGED <<fnvars, inputs, world, crates, baseBranch, branchName, idx, guard>>

\* the mutant skips the semver checks whatever the input says
SkipSemverAlways ==
    /\ pc = "semver"
    /\ Goto("package")
    /\ UNCHANGED <<fnvars, inputs, world, locals, guard, log, outputs>>

\* if (inputs.checkSemver): not set
SkipSemver ==
    /\ pc = "semver"
    /\ ~inputs.checkSemver
    /\ Goto("package")
    /\ UNCHANGED <<fnvars, inputs, world, locals, guard, log, outputs>>

\* runSemverChecks(crates[idx]): probe and install cargo-semver-checks
SemverGuard ==
    /\ pc = "semver"
    /\ inputs.checkSemver
    /\ GuardStep("cargo-semver-checks", "semver.check")
    /\ UNCHANGED <<fnvars, inputs, world, locals, log, outputs>>

\* runSemverChecks(crates[idx]): cargo semver-checks check-release
SemverCheck ==
    /\ pc = "semver.check"
    /\ \E exit \in ExitCodes :
        /\ execAndSucceed(<<"cargo", "semver-checks", "check-release", "--package",
                            crates[idx].name, "--verbose">>,
                          crates[idx].path, exit,
                          IF idx < Len(crates) THEN "semver" ELSE "package")
        /\ idx' = IF exit # 0 THEN idx ELSE IF idx < Len(crates) THEN idx + 1 ELSE 1
    /\ UNCHANGED <<fnvars, inputs, world, crates, baseBranch, branchName, newCrates,
                   newVersion, guard, outputs>>

\* if (inputs.checkPackage): not set
SkipPackage ==
    /\ pc = "package"
    /\ ~inputs.checkPackage
    /\ Goto("rename")
    /\ UNCHANGED <<fnvars, inputs, world, locals, guard, log, outputs>>

\* cargo publish --dry-run -p crates[idx].name
PackageCheck ==
    /\ pc = "package"
    /\ inputs.checkPackage
    /\ \E exit \in ExitCodes :
        /\ execAndSucceed(<<"cargo", "publish", "--dry-run", "-p", crates[idx].name>>,
                          <<>>, exit,
                          IF idx < Len(crates) THEN "package" ELSE "rename")
        /\ idx' = IF exit # 0 THEN idx ELSE IF idx < Len(crates) THEN idx + 1 ELSE 1
    /\ UNCHANGED <<fnvars, inputs, world, crates, baseBranch, branchName, newCrates,
                   newVersion, guard, outputs>>

\* if (inputs.version !== newVersion): the versions agree
SkipRename ==
    /\ pc = "rename"
    /\ ~needsRename(inputs.version, newVersion)
    /\ Goto("push")
    /\ UNCHANGED <<fnvars, inputs, world, locals, guard, log, outputs>>

\* branchName = makeBranchName(newVersion, ...); renameBranch: git branch -M
RenameBranch ==
    /\ pc = "rename"
    /\ needsRename(inputs.version, newVersion)
    /\ branchName' = makeBranchName(newVersion, JsStr(branchCore(crates)), inputs.git)
    /\ \E exit \in ExitCodes :
        /\ execAndSucceed(<<"git", "branch", "-M", branchName'>>, <<>>, exit, "push")
        /\ head' = IF exit = 0 THEN branchName' ELSE head
    /\ UNCHANGED <<fnvars, inputs, disk, remote, prs, crates, baseBranch, newCrates,
                   newVersion, idx, guard, outputs>>

\* the mutant goes on to the pull request whether or not the push succeeded
PushBranchLenient ==
    /\ pc = "push"
    /\ SetOutput("pr-branch", branchName)
    /\ \E exit \in ExitCodes :
        /\ execAndSucceedLenient(<<"git", "push", "origin", branchName>>, <<>>, exit, "makePR")
        /\ remote' = IF exit = 0 THEN Append(remote, branchName) ELSE remote
    /\ UNCHANGED <<fnvars, inputs, disk, head, prs, locals, guard>>

\* the mutant sets the pr-branch output once the push has succeeded
PushBranchThenOutput ==
    /\ pc = "push"
    /\ \E exit \in ExitCodes :
        /\ execAndSucceed(<<"git", "push", "origin", branchName>>, <<>>, exit, "makePR")
        /\ remote' = IF exit = 0 THEN Append(remote, branchName) ELSE remote
        /\ IF exit = 0 THEN SetOutput("pr-branch", branchName) ELSE UNCHANGED outputs
    /\ UNCHANGED <<fnvars, inputs, disk, head, prs, locals, guard>>

\* setOutput('pr-branch', branchName); pushBranch: git push origin
PushBranch ==
    /\ pc = "push"
    /\ SetOutput("pr-branch", branchName)
    /\ \E exit \in ExitCodes :
        /\ execAndSucceed(<<"git", "push", "origin", branchName>>, <<>>, exit, "makePR")
        /\ remote' = IF exit = 0 THEN Append(remote, branchName) ELSE remote
    /\ UNCHANGED <<fnvars, inputs, disk, head, prs, locals, guard>>

\* the mutant takes the previous version from the packages read back
TemplateVarsReadBack ==
    [crate |-> [name |-> crates[1].name, path |-> crates[1].path],
     crates |-> [i \in 1..Len(crates) |-> [name |-> crates[i].name,
                                           path |-> crates[i].path]],
     version |-> [previous |-> newCrates[1].version,
                  actual |-> newVersion,
                  desired |-> inputs.version],
     branchName |-> branchName]

\* the mutant hands the templates the name the branch was created with
TemplateVarsStale ==
    [crate |-> [name |-> crates[1].name, path |-> crates[1].path],
     crates |-> [i \in 1..Len(crates) |-> [name |-> crates[i].name,
                                           path |-> crates[i].path]],
     version |-> [previous |-> crates[1].version,
                  actual |-> newVersion,
                  desired |-> inputs.version],
     branchName |-> makeBranchName(inputs.version, JsStr(branchCore(crates)), inputs.git)]

\* the variables makePR renders the title and the body with
TemplateVars ==
    [crate |-> [name |-> crates[1].name, path |-> crates[1].path],
     crates |-> [i \in 1..Len(crates) |-> [name |-> crates[i].name,
                                           path |-> crates[i].path]],
     version |-> [previous |-> crates[1].version,
                  actual |-> newVersion,
                  desired |-> inputs.version],
     branchName |-> branchName]

\* makePR: render, POST /repos/{owner}/{repo}/pulls, setOutput('pr-url')
MakePR ==
    /\ pc = "makePR"
    /\ \E outcome \in {"render throws", "request fails", "created"} :
        IF outcome = "render throws"
            THEN Fail("template error") /\ UNCHANGED <<log, prs, outputs>>
        ELSE /\ Ran("api", <<"POST /repos/{owner}/{repo}/pulls", branchName, baseBranch>>,
                    <<>>, IF outcome = "request fails" THEN 1 ELSE 0)
             /\ IF outcome = "request fails"
                 THEN Fail("Validation Failed") /\ UNCHANGED <<prs, outputs>>
                ELSE /\ prs' = Append(prs, [head |-> branchName, base |-> baseBranch,
                                            vars |-> TemplateVars, url |-> PrApiUrl])
                     /\ SetOutput("pr-url", publicUrl(PrApiUrl))
                     /\ Goto("done")
    /\ UNCHANGED <<fnvars, inputs, disk, head, remote, locals, guard>>

Next ==
    \/ GetInputs
    \/ FindCratesGuard
    \/ FindCratesList
    \/ SetGithubUserName
    \/ SetGithubUserEmail
    \/ UnshallowGit
    \/ FetchGitTags
    \/ UseBaseBranchInput
    \/ GetDefaultBranch
    \/ MakeBranch
    \/ ReleaseGuard
    \/ ReleaseMetadata
    \/ ReleaseVersion
    \/ ReleaseChanges
    \/ ReleaseBump
    \/ ReleaseCheck
    \/ ReleaseReplace
    \/ ReleaseHook
    \/ ReleaseCommit
    \/ ReleaseOld
    \/ ReadBackGuard
    \/ ReadBackList
    \/ SkipSemver
    \/ SemverGuard
    \/ SemverCheck
    \/ SkipPackage
    \/ PackageCheck
    \/ SkipRename
    \/ RenameBranch
    \/ PushBranch
    \/ MakePR

Spec == Init /\ [][Next]_vars

\* the run variables of the specifications that only apply a function
RunIdle ==
    /\ pc = "idle"
    /\ inputs = <<>>
    /\ disk = <<>>
    /\ crates = <<>>
    /\ baseBranch = ""
    /\ branchName = ""
    /\ newCrates = <<>>
    /\ newVersion = ""
    /\ idx = 1
    /\ guard = NoGuard
    /\ log = <<>>
    /\ outputs = <<>>
    /\ failures = <<>>
    /\ head = ""
    /\ remote = <<>>
    /\ prs = <<>>

\* =================================================== the pure functions
\* Each is applied once to an argument record drawn from a bounded set.

\* ---- makeBranchName

BranchVersions == {"1.2.3", "minor", ""}

BranchCrates == {JsFalse, JsStr("widget"), JsStr("all"), JsStr("")}

BranchOpts == [branchPrefix : {"release", "rel", ""},
               branchSeparator : {"/", "-", ""}]

InitBranch ==
    /\ arg \in [version : BranchVersions, crate : BranchCrates, git : BranchOpts]
    /\ ret = ""
    /\ called = FALSE
    /\ RunIdle

CallMakeBranchName ==
    /\ ~called
    /\ called' = TRUE
    /\ ret' = makeBranchName(arg.version, arg.crate, arg.git)
    /\ UNCHANGED <<arg, runvars>>

SpecBranch == InitBranch /\ [][CallMakeBranchName]_vars

\* ---- the resolver

\* workspace listings: up to MaxPkgs different packages in any order
Snapshots ==
    {[i \in 1..Len(ids) |-> Pkg(ids[i], vs[i])] :
        <<ids, vs>> \in UNION {{<<a, b>> : a \in {f \in [1..n -> 1..MaxPkgs] :
                                                   \A i, j \in 1..n : i # j => f[i] # f[j]},
                                               b \in [1..n -> Versions]} : n \in 0..MaxPkgs}}

SelectorNames == {"", "widget", "gadget", "nosuch"}

SelectorPaths == {<<>>, <<".">>, <<"crates", "gadget">>,
                  <<"/", "ws", "crates", "gadget">>,
                  <<"crates", "gadget", "..", "sprocket">>, <<"nowhere">>}

Selectors == [name : SelectorNames, path : SelectorPaths, releaseAll : BOOLEAN]

InitResolve ==
    /\ arg \in [snap : Snapshots, sel : Selectors]
    /\ ret = Throw("")
    /\ called = FALSE
    /\ RunIdle

CallFindCrates ==
    /\ ~called
    /\ called' = TRUE
    /\ ret' = findCratesIn(arg.snap, arg.sel)
    /\ UNCHANGED <<arg, runvars>>

SpecResolve == InitResolve /\ [][CallFindCrates]_vars

\* ---- the public URL

\* hostnames, as sequences of labels
cAPIEXAMPLE == cAPI \o cEXAMPLE

HostLabels == {<<cAPI, cEXAMPLE, cCOM>>, <<cEXAMPLE, cCOM>>,
               <<cAPIEXAMPLE, cCOM>>, <<cEXAMPLE, cAPI, cCOM>>}

PathSegs == {cREPOS, cACME, cWIDGET, cPULLS, c42}

\* the API URLs: a host and up to MaxSegs path segments
InitUrl ==
    /\ arg \in {[labels |-> l, segs |-> sg, url |-> apiUrl(l, sg)] :
                    l \in HostLabels, sg \in SeqsOf(PathSegs, 0, MaxSegs)}
    /\ ret = <<>>
    /\ called = FALSE
    /\ RunIdle

CallPublicUrl ==
    /\ ~called
    /\ called' = TRUE
    /\ ret' = publicUrl(arg.url)
    /\ UNCHANGED <<arg, runvars>>

SpecUrl == InitUrl /\ [][CallPublicUrl]_vars

\* ---- the tool guard

GuardedTools == {"cargo-release", "cargo-workspaces", "cargo-semver-checks"}

InitGuard ==
    /\ arg \in [tool : GuardedTools, probe : ProbeOutcomes,
                 probeBinstall : ProbeOutcomes, exit : ExitCodes]
    /\ ret = NoGuard
    /\ called = FALSE
    /\ RunIdle

CallInstallToolIfNotExists ==
    /\ ~called
    /\ called' = TRUE
    /\ ret' = installToolIfNotExists(arg.tool, arg.probe, arg.probeBinstall, arg.exit)
    /\ UNCHANGED <<arg, runvars>>

SpecGuard == InitGuard /\ [][CallInstallToolIfNotExists]_vars

\* ---- the choice of the invocation style

\* what `cargo release --version` may report: major.minor.patch, a version
\* of two or of four numbers, or nothing the pattern finds
StyleReports ==
    {<<a, b, c>> : a \in 0..1, b \in 0..MaxMinor, c \in 0..1}
        \cup {<<a, b>> : a \in 0..1, b \in 0..MaxMinor}
        \cup {<<0, b, 0, 0>> : b \in 0..MaxMinor}
        \cup {<<>>}

InitStyle ==
    /\ arg \in StyleReports
    /\ ret = ""
    /\ called = FALSE
    /\ RunIdle

CallReleaseStyle ==
    /\ ~called
    /\ called' = TRUE
    /\ ret' = releaseStyle(arg)
    /\ UNCHANGED <<arg, runvars>>

SpecStyle == InitStyle /\ [][CallReleaseStyle]_vars

\* ---- the failure report

\* texts a failure can carry
ThrownTexts ==
    {"", UnknownErrorMessage, IdenticalMessage, "Not Found", "Validation Failed",
     "template error", "no matching crate found", "no good crates found",
     "multiple crates in the workspace, but crate-release-all is false",
     "Unexpected token < in JSON at position 0"}
    \cup {ExitMessage(program, exit) : program \in {"cargo", "git"}, exit \in {1, 101, 128}}

\* values a throw can carry: errors, strings, and values that are neither
\* (plain objects with or without a message property, numbers, undefined)
ThrownValues ==
    {NewError(m) : m \in ThrownTexts}
    \cup {Thrown("string", FALSE, "", t) : t \in ThrownTexts}
    \cup {Thrown("object", FALSE, m, "") : m \in ThrownTexts}
    \cup {Thrown(type, FALSE, "", "") : type \in {"number", "undefined", "boolean"}}

InitReport ==
    /\ arg \in ThrownValues
    /\ ret = ""
    /\ called = FALSE
    /\ RunIdle

CallFailureReport ==
    /\ ~called
    /\ called' = TRUE
    /\ ret' = failureReport(arg)
    /\ UNCHANGED <<arg, runvars>>

SpecReport == InitReport /\ [][CallFailureReport]_vars

\* ================================================ claims: pure functions

NoSelector == arg.sel.name = "" /\ arg.sel.path = <<>>

\* C4: in a workspace of exactly one package, a selector with no name and
\* no path resolves to exactly that package, whatever releaseAll is.
C4_OnePackageNoSelector ==
    (called /\ Len(arg.snap) = 1 /\ NoSelector)
        => (ret.ok /\ ret.crates = <<arg.snap[1]>>)

C4_Witness ==
    called /\ Len(arg.snap) = 1 /\ NoSelector /\ ~arg.sel.releaseAll /\ ret.ok

\* C5: in a workspace of more than one package, a selector with no name,
\* no path and releaseAll unset fails and returns no package.
C5_ManyPackagesNoSelector ==
    (called /\ Len(arg.snap) > 1 /\ NoSelector /\ ~arg.sel.releaseAll)
        => /\ ~ret.ok
           /\ ret.crates = <<>>
           /\ ret.error = "multiple crates in the workspace, but crate-release-all is false"

C5_Witness ==
    called /\ Len(arg.snap) = 3 /\ NoSelector /\ ~arg.sel.releaseAll /\ ~ret.ok

\* positions of the packages whose version is not the first package's
Divergent(snap) == {i \in 1..Len(snap) : snap[i].version # snap[1].version}

\* C6: with more than one package and releaseAll set (no name, no path),
\* resolve succeeds with all packages in snapshot order iff every version
\* equals the first package's; otherwise the error names the first
\* divergent package, its version, and the first-seen version as expected.
C6_ReleaseAll ==
    (called /\ Len(arg.snap) > 1 /\ NoSelector /\ arg.sel.releaseAll)
        => /\ ret.ok <=> Divergent(arg.snap) = {}
           /\ ret.ok => ret.crates = arg.snap
           /\ ~ret.ok =>
                LET bad == arg.snap[Min(Divergent(arg.snap))]
                IN /\ ret.crates = <<>>
                   /\ ret.error = "multiple crates with different versions: crate="
                        \o bad.name \o " version=" \o bad.version
                        \o " expected=" \o arg.snap[1].version

C6_Witness ==
    /\ called /\ Len(arg.snap) = 3 /\ NoSelector /\ arg.sel.releaseAll
    /\ Divergent(arg.snap) = {3}
    /\ ~ret.ok

C6_WitnessAll ==
    /\ called /\ Len(arg.snap) = 3 /\ NoSelector /\ arg.sel.releaseAll
    /\ ret.ok /\ Len(ret.crates) = 3

\* C7: a selector giving a name (and no path) that no package of the
\* snapshot bears fails with the not-found error and returns no package.
C7_NameNotFound ==
    (/\ called /\ arg.sel.name # "" /\ arg.sel.path = <<>>
     /\ \A i \in 1..Len(arg.snap) : arg.snap[i].name # arg.sel.name)
        => /\ ~ret.ok
           /\ ret.crates = <<>>
           /\ ret.error = "no matching crate found"

C7_Witness ==
    /\ called /\ arg.sel.name = "gadget" /\ arg.sel.path = <<>>
    /\ Len(arg.snap) = 2
    /\ \A i \in 1..Len(arg.snap) : arg.snap[i].name # arg.sel.name
    /\ ~ret.ok

\* the segments prefix, package, version of a call, false read as ""
C8_Segments ==
    <<arg.git.branchPrefix,
      IF arg.crate = JsFalse THEN "" ELSE arg.crate[1],
      arg.version>>

\* prefix, package, version in that order, the empty ones left out, joined
C8_Expected ==
    LET p == C8_Segments[1]
        c == C8_Segments[2]
        v == C8_Segments[3]
        sep == arg.git.branchSeparator
    IN CASE p # "" /\ c # "" /\ v # "" -> p \o sep \o c \o sep \o v
         [] p # "" /\ c # "" /\ v = "" -> p \o sep \o c
         [] p # "" /\ c = "" /\ v # "" -> p \o sep \o v
         [] p = "" /\ c # "" /\ v # "" -> c \o sep \o v
         [] p # "" /\ c = "" /\ v = "" -> p
         [] p = "" /\ c # "" /\ v = "" -> c
         [] p = "" /\ c = "" /\ v # "" -> v
         [] OTHER -> ""

\* C8: makeBranchName returns prefix, package, version in that order, every
\* empty or false segment left out, joined by the separator; release,
\* false, 1.2.3, "/" is release/1.2.3 and package widget release/widget/1.2.3.
C8_BranchName ==
    called =>
        /\ ret = C8_Expected
        /\ (arg = [version |-> "1.2.3", crate |-> JsFalse, git |-> BranchOptsDefault])
                => ret = "release/1.2.3"
        /\ (arg = [version |-> "1.2.3", crate |-> JsStr("widget"), git |-> BranchOptsDefault])
                => ret = "release/widget/1.2.3"

C8_Witness ==
    /\ called
    /\ arg = [version |-> "1.2.3", crate |-> JsFalse, git |-> BranchOptsDefault]
    /\ ret = "release/1.2.3"

\* the host and path the public URL is expected to have, piece by piece
C9_Labels ==
    IF Len(arg.labels) > 1 /\ arg.labels[1] = cAPI THEN Tail(arg.labels)
    ELSE arg.labels

C9_Segs ==
    LET s1 == IF Len(arg.segs) > 1 /\ arg.segs[1] = cREPOS THEN Tail(arg.segs)
              ELSE arg.segs
        n == Len(s1)
    IN IF n >= 2 /\ s1[n - 1] = cPULLS /\ \A i \in 1..Len(s1[n]) : s1[n][i] \in Digits
        THEN [s1 EXCEPT ![n - 1] = cPULL]
       ELSE s1

Issued(prefix) ==
    {i \in 1..Len(log) :
        /\ log[i].kind = "exec"
        /\ Len(log[i].cmd) >= Len(prefix)
        /\ SubSeq(log[i].cmd, 1, Len(prefix)) = prefix}

Renames == Issued(<<"git", "branch", "-M">>)

Pushes == Issued(<<"git", "push", "origin">>)

PrRequests == {i \in 1..Len(log) : log[i].kind = "api" /\ Len(log[i].cmd) = 3}

\* the values setOutput was called with for one output
OutputsOf(name) ==
    LET at == SelectSeq(outputs, LAMBDA o : o.name = name)
    IN [i \in 1..Len(at) |-> at[i].value]

\* C1: when the version read back after the release equals the version the
\* (first) selected package had before it, the run has failed with the
\* identical-versions error, no branch was pushed and no pull request made.
C1_IdenticalVersionsStop ==
    (newCrates # <<>> /\ newCrates[1].version = crates[1].version)
        => /\ pc = "failed"
           /\ failures = <<IdenticalMessage>>
           /\ Pushes = {} /\ remote = <<>>
           /\ PrRequests = {} /\ prs = <<>>

C1_Witness ==
    /\ newCrates # <<>> /\ newCrates[1].version = crates[1].version
    /\ pc = "failed"
    /\ Len(crates) = 2

\* the name the branch gets for a version
C2_NameFor(version) ==
    makeBranchName(version, JsStr(branchCore(crates)), inputs.git)

\* C2: a rename is issued only when the version read back differs from the
\* desired version, at most once, with the name recomputed from the version
\* read back, and before any push; a run that gets as far as the push has
\* renamed its branch exactly when the two versions differ.
C2_RenameIffVersionsDiffer ==
    /\ Cardinality(Renames) <= 1
    /\ \A i \in Renames :
        /\ newVersion # "" /\ newVersion # inputs.version
        /\ log[i].cmd = <<"git", "branch", "-M", C2_NameFor(newVersion)>>
        /\ \A j \in Pushes : i < j
    /\ (pc \in {"push", "makePR", "done"} \/ Pushes # {})
        => /\ Renames # {} <=> newVersion # inputs.version
           /\ Renames # {} => head = C2_NameFor(newVersion)
           /\ Renames = {} => head = C2_NameFor(inputs.version)

C2_Witness ==
    /\ pc = "done"
    /\ Cardinality(Renames) = 1
    /\ inputs.version = "minor"
    /\ head = "release/widget/1.3.0"
    /\ remote = <<"release/widget/1.3.0">>

C2_WitnessNoRename ==
    pc = "done" /\ Renames = {} /\ inputs.version = "1.3.0" /\ newVersion = "1.3.0"

\* C3: the name pushed, the head of the pull request, the branchName the
\* templates see and the pr-branch output are one string, the final name;
\* pr-branch is written at most once, and after a rename never with the
\* name the branch was created with.
C3_OneBranchName ==
    /\ Len(OutputsOf("pr-branch")) <= 1
    /\ \A k \in 1..Len(OutputsOf("pr-branch")) :
        LET name == OutputsOf("pr-branch")[k]
        IN /\ name = branchName
           /\ \A i \in Pushes : log[i].cmd[4] = name
           /\ \A i \in 1..Len(remote) : remote[i] = name
           /\ \A i \in PrRequests : log[i].cmd[2] = name
           /\ \A i \in 1..Len(prs) :
                prs[i].head = name /\ prs[i].vars.branchName = name
           /\ \A i \in Renames :
                name = log[i].cmd[4] /\ name # C2_NameFor(inputs.version)
    /\ (Pushes # {} \/ prs # <<>>) => Len(OutputsOf("pr-branch")) = 1

C3_Witness ==
    /\ pc = "done"
    /\ Renames # {}
    /\ OutputsOf("pr-branch") = <<"release/all/2.0.0">>
    /\ remote = <<"release/all/2.0.0">>
    /\ Len(prs) = 1 /\ prs[1].head = "release/all/2.0.0"
    /\ prs[1].vars.branchName = "release/all/2.0.0"

\* cargo release changes: the one command whose exit code the run ignores
IsChangesPreview(event) == event.cmd = <<"cargo", "release", "changes">>

\* the install command of the latest tool guard call, if it ran
GuardInstalls == {i \in 1..Len(guard.events) : guard.events[i].e = "exec"}

\* C10 as stated: any command or request that fails is the last thing the
\* run does, and its message is the one failure report.
C10_AnyFailureEndsRun ==
    \A i \in 1..Len(log) :
        log[i].exit # 0
            => i = Len(log) /\ pc = "failed" /\ Len(failures) = 1

\* C10, amended: a failure other than that of the changes preview (and of a
\* tool probe) ends the run: the failing command or request is the last one
\* made, nothing is enabled afterwards, and there is exactly one failure
\* report, with that failure's message; a run that ends well reports none.
C10_FatalFailureEndsRun ==
    /\ Len(failures) <= 1
    /\ pc = "failed" <=> Len(failures) = 1
    /\ pc = "failed" => ~ENABLED Next
    /\ pc = "done" => failures = <<>>
    /\ \A i \in 1..Len(log) :
        (log[i].exit # 0 /\ ~IsChangesPreview(log[i]))
            => /\ i = Len(log)
               /\ pc = "failed"
               /\ log[i].kind = "exec"
                    => failures = <<ExitMessage(log[i].cmd[1], log[i].exit)>>
    /\ \A i \in GuardInstalls :
        guard.events[i].outcome.code # 0
            => /\ pc = "failed"
               /\ failures = <<ExitMessage("cargo", guard.events[i].outcome.code)>>
    /\ (newCrates # <<>> /\ newCrates[1].version = crates[1].version)
        => failures = <<IdenticalMessage>>

C10_Witness ==
    /\ pc = "failed"
    /\ Len(log) > 0 /\ log[Len(log)].exit # 0
    /\ log[Len(log)].cmd = <<"cargo", "check">>
    /\ \E i \in 1..Len(log) : IsChangesPreview(log[i]) /\ log[i].exit # 0

C10_WitnessDone ==
    pc = "done" /\ failures = <<>>

\* positions in the log of the git commands that move or name the branch
BranchCommands == Issued(<<"git", "switch">>) \cup Issued(<<"git", "branch">>)

\* the branch the commands of the log that succeeded have left checked out
HeadFromLog ==
    LET moved == {i \in BranchCommands : log[i].exit = 0}
    IN IF moved = {} THEN ""
       ELSE log[CHOOSE i \in moved : \A j \in moved : j <= i].cmd[4]

\* the commands that would undo a step of the run
Compensating ==
    Issued(<<"git", "branch", "-D">>) \cup Issued(<<"git", "branch", "-d">>)
        \cup Issued(<<"git", "checkout">>) \cup Issued(<<"git", "reset">>)
        \cup Issued(<<"git", "revert">>)
        \cup {i \in Issued(<<"git", "switch">>) : log[i].cmd[3] # "-c"}

\* C11: after a failure the run does nothing more: nothing is enabled, so
\* the branch checked out, the commits and the remote stay as the failing
\* step left them; the log holds no deleting, switching-away, resetting or
\* renaming-back command, and the branch checked out is the one the last
\* successful create or rename named.
C11_NoRollback ==
    /\ failures # <<>> => ~ENABLED Next
    /\ Compensating = {}
    /\ Cardinality(Issued(<<"git", "switch", "-c">>)) <= 1
    /\ \A i \in Renames : log[i].cmd[4] # C2_NameFor(inputs.version)
    /\ head = HeadFromLog
    /\ failures # <<>> =>
        /\ \A i \in BranchCommands : log[i].exit # 0 => i = Len(log)
        /\ Len(remote) = Cardinality({i \in Pushes : log[i].exit = 0})

\* a run that fails in the semver check after the release commit was made:
\* the branch stays checked out and the bumped version stays on disk
C11_Witness ==
    /\ pc = "failed"
    /\ head = "release/widget/minor"
    /\ \E i \in Issued(<<"cargo", "release", "commit">>) : log[i].exit = 0
    /\ log[Len(log)].cmd[2] = "semver-checks" /\ log[Len(log)].exit # 0
    /\ disk[1].version = "1.3.0"

\* C12: a run that ends well has set exactly three outputs, each once:
\* pr-branch to the final branch name (the one checked out and pushed),
\* version to the version read back after the release, pr-url to the public
\* rewrite of the URL of the pull request created; no output is ever set
\* twice.
C12_OutputsOnce ==
    /\ \A name \in {"pr-branch", "version", "pr-url"} : Len(OutputsOf(name)) <= 1
    /\ \A k \in 1..Len(outputs) : outputs[k].name \in {"pr-branch", "version", "pr-url"}
    /\ pc = "done" =>
        /\ Len(outputs) = 3
        /\ OutputsOf("pr-branch") = <<branchName>>
        /\ head = branchName /\ remote = <<branchName>>
        /\ OutputsOf("version") = <<newVersion>>
        /\ newVersion = newCrates[1].version
        /\ \E i \in 1..Len(disk) :
            disk[i].name = crates[1].name /\ disk[i].version = newVersion
        /\ Len(prs) = 1
        /\ OutputsOf("pr-url") = <<publicUrl(prs[1].url)>>

C12_Witness ==
    /\ pc = "done"
    /\ outputs = <<[name |-> "version", value |-> "1.3.0"],
                   [name |-> "pr-branch", value |-> "release/widget/1.3.0"],
                   [name |-> "pr-url",
                    value |-> apiUrl(<<cEXAMPLE, cCOM>>, <<cACME, cWIDGET, cPULL, c42>>)]>>
    /\ inputs.version = "minor"

SemverChecks == Issued(<<"cargo", "semver-checks", "check-release">>)

\* positions of the workspace listings; the second is the read-back
Listings == Issued(<<"cargo", "workspaces", "list">>)

ReleaseCommands == Issued(<<"cargo", "release">>)

\* the run has got past the semver checks
PastSemver == pc \in {"package", "rename", "push", "makePR", "done"} \/ Pushes # {}

\* C13: semver checks are run only when check-semver is set; the k-th one is
\* for the k-th selected package, so each package is checked at most once
\* and, once the run is past the checks, exactly once; each check comes
\* after every release-tool command and after the successful read-back, and
\* before any push; a check that exits non-zero ends the run with no push
\* and no pull request.
C13_SemverChecks ==
    /\ ~inputs.checkSemver => SemverChecks = {}
    /\ Cardinality(SemverChecks) <= Len(crates)
    /\ \A i \in SemverChecks :
        LET k == Cardinality({j \in SemverChecks : j <= i})
        IN /\ log[i].cmd[5] = crates[k].name
           /\ newVersion # ""
           /\ Cardinality({j \in Listings : j < i /\ log[j].exit = 0}) = 2
           /\ \A j \in ReleaseCommands : j < i
           /\ \A j \in Pushes \cup PrRequests : i < j
           /\ log[i].exit # 0 =>
                /\ pc = "failed"
                /\ Pushes = {} /\ remote = <<>>
                /\ PrRequests = {} /\ prs = <<>>
    /\ (inputs.checkSemver /\ PastSemver) =>
        /\ Cardinality(SemverChecks) = Len(crates)
        /\ \A i \in SemverChecks : log[i].exit = 0

C13_Witness ==
    /\ pc = "done"
    /\ inputs.checkSemver
    /\ Len(crates) = 2
    /\ Cardinality(SemverChecks) = 2

C13_WitnessFailed ==
    /\ pc = "failed"
    /\ Len(crates) = 2
    /\ Cardinality(SemverChecks) = 2
    /\ log[Len(log)].cmd[2] = "semver-checks" /\ log[Len(log)].exit # 0

\* the probes of the latest tool guard call, in order
GuardProbes == {i \in 1..Len(guard.events) : guard.events[i].e = "probe"}

\* a probe succeeded: the program was launched and exited with 0
ProbeSucceeded(event) == ~event.outcome.threw /\ event.outcome.code = 0

\* C14: a tool guard call probes the tool first; when the probe succeeds
\* nothing is installed; when it does not, cargo-binstall is probed and
\* exactly one install command is run: cargo binstall --no-confirm <tool>
\* if that probe succeeded, cargo install <tool> otherwise; an installer
\* that exits non-zero fails the run with its message and is the last thing
\* the guard did.
C14_OneInstaller ==
    guard.tool # "" =>
        /\ guard.events[1] \in {GuardEvent("probe", <<guard.tool, "--help">>, o) :
                                    o \in ProbeOutcomes}
        /\ IF ProbeSucceeded(guard.events[1])
            THEN Len(guard.events) = 1 /\ GuardInstalls = {} /\ guard.error = ""
           ELSE /\ Len(guard.events) = 4
                /\ GuardProbes = {1, 3}
                /\ guard.events[3].cmd = <<"cargo-binstall", "--help">>
                /\ GuardInstalls = {4}
                /\ guard.events[4].cmd =
                    IF ProbeSucceeded(guard.events[3])
                        THEN <<"cargo", "binstall", "--no-confirm", guard.tool>>
                    ELSE <<"cargo", "install", guard.tool>>
                /\ guard.events[4].outcome.code # 0 =>
                    /\ pc = "failed"
                    /\ failures = <<ExitMessage("cargo", guard.events[4].outcome.code)>>
                /\ guard.events[4].outcome.code = 0 => guard.error = ""

C14_Witness ==
    /\ guard.tool = "cargo-release"
    /\ ~ProbeSucceeded(guard.events[1])
    /\ ProbeSucceeded(guard.events[3])
    /\ guard.events[4].cmd = <<"cargo", "binstall", "--no-confirm", "cargo-release">>
    /\ guard.events[4].outcome.code # 0
    /\ pc = "failed"

C14_WitnessFromSource ==
    /\ guard.tool = "cargo-semver-checks"
    /\ guard.events[1].outcome.threw
    /\ Len(guard.events) = 4
    /\ guard.events[3].outcome.threw
    /\ guard.events[4].cmd = <<"cargo", "install", "cargo-semver-checks">>
    /\ guard.events[4].outcome.code = 0
    /\ pc = "semver.check"

\* positions in the log of the default-branch lookups
DefaultBranchLookups ==
    {i \in 1..Len(log) : log[i].kind = "api" /\ log[i].cmd = <<"GET /repos/{owner}/{repo}">>}

\* the branch a pull request of the run has to target
C15_Target == IF inputs.baseBranch # "" THEN inputs.baseBranch ELSE DefaultBranch

\* C15: every pull request, requested or created, targets the base-branch
\* input when it is not empty and the default branch the API reported
\* otherwise; the default branch is looked up at most once, never when a
\* base branch is configured, and always (with success) before a pull
\* request is requested when none is.
C15_BaseBranch ==
    /\ Cardinality(DefaultBranchLookups) <= 1
    /\ inputs.baseBranch # "" => DefaultBranchLookups = {}
    /\ \A i \in PrRequests :
        /\ log[i].cmd[3] = C15_Target
        /\ inputs.baseBranch = "" =>
            \E j \in DefaultBranchLookups : j < i /\ log[j].exit = 0
    /\ \A k \in 1..Len(prs) : prs[k].base = C15_Target

C15_Witness ==
    /\ pc = "done"
    /\ inputs.baseBranch = ""
    /\ Cardinality(DefaultBranchLookups) = 1
    /\ Len(prs) = 1 /\ prs[1].base = "main"

C15_WitnessConfigured ==
    /\ pc = "done"
    /\ inputs.baseBranch = "develop"
    /\ DefaultBranchLookups = {}
    /\ Len(prs) = 1 /\ prs[1].base = "develop"

BranchCreations == Issued(<<"git", "switch", "-c">>)

\* the package segment the claim gives the branch name
C16_Token == IF Len(crates) = 1 THEN crates[1].name ELSE "all"

\* the branch name with that segment, for the default prefix and separator
C16_Name(version) == "release/" \o C16_Token \o "/" \o version

C16_WitnessAll ==
    /\ Len(crates) = 2
    /\ head = "release/all/minor"

C16_WitnessByPath ==
    /\ Len(disk) = 2
    /\ Len(crates) = 1
    /\ head = "release/gadget/minor"

\* positions of the package the selector's name names, and of the package
\* at the selector's path
C17_ByName == {i \in 1..Len(arg.snap) : arg.snap[i].name = arg.sel.name}

C17_ByPath == {i \in 1..Len(arg.snap) : arg.snap[i].path = realpath(arg.sel.path)}

\* the selector gives a name and a path, and they are those of two
\* different packages of the snapshot
C17_Disagree ==
    /\ arg.sel.name # "" /\ arg.sel.path # <<>>
    /\ C17_ByName # {} /\ C17_ByPath # {}
    /\ C17_ByName \cap C17_ByPath = {}

\* C17 as stated: a name and a path that identify different packages make
\* resolve fail with the no-match error, and no package is selected.
C17_DisagreementIsNoMatch ==
    (called /\ C17_Disagree)
        => /\ ~ret.ok
           /\ ret.crates = <<>>
           /\ ret.error = "no matching crate found"

\* C17, what pkgid does: a name and a path that identify different packages
\* select the one of the two that comes first in the snapshot, with no error.
C17_DisagreementSelectsFirst ==
    (called /\ C17_Disagree)
        => /\ ret.ok
           /\ ret.crates = <<arg.snap[Min(C17_ByName \cup C17_ByPath)]>>

C17_Witness ==
    /\ called
    /\ arg.sel.name = "widget" /\ arg.sel.path = <<"crates", "gadget">>
    /\ Len(arg.snap) = 2
    /\ arg.snap[1].name = "gadget" /\ arg.snap[2].name = "widget"
    /\ ret.ok /\ Len(ret.crates) = 1 /\ ret.crates[1].name = "gadget"

\* the release-tool subcommands of the run: every `cargo release ...` but
\* the version query `cargo release --version`, which releases nothing
ReleaseSubcommands ==
    {i \in ReleaseCommands : log[i].cmd # <<"cargo", "release", "--version">>}

\* C18: every release-tool subcommand of the run (changes, version, replace,
\* hook, commit, or the single old-style invocation) is executed with the
\* selected package's path as working directory when one package is
\* selected, and with the workspace root when several are.
C18_ReleaseCwd ==
    \A i \in ReleaseSubcommands :
        /\ Len(crates) = 1 => log[i].cwd = crates[1].path
        /\ Len(crates) > 1 => log[i].cwd = workspaceRoot
        /\ log[i].cwd # <<>>

C18_Witness ==
    /\ Len(crates) = 1 /\ crates[1].name = "gadget"
    /\ \E i \in Issued(<<"cargo", "release", "commit">>) :
        log[i].cwd = <<"/", "ws", "crates", "gadget">>
    /\ \E i \in Issued(<<"cargo", "release", "version">>) :
        log[i].cwd = <<"/", "ws", "crates", "gadget">>

C18_WitnessAll ==
    /\ Len(crates) = 2
    /\ \E i \in Issued(<<"cargo", "release", "--execute">>) : log[i].cwd = <<"/", "ws">>

\* identity setup: the two git config commands
IdentityCommands == Issued(<<"git", "config">>)

\* history preparation: the two git fetch commands
HistoryCommands == Issued(<<"git", "fetch">>)

\* the commands before position i that exited with 0, among those of S
SucceededBefore(S, i) == {j \in S : j < i /\ log[j].exit = 0}

\* C19 as stated: the workspace is listed only after the identity has been
\* configured and the history and the tags fetched; a run whose identity
\* setup or history preparation failed has not listed the workspace.
C19_SelectionAfterSetup ==
    /\ \A i \in Listings :
        /\ Cardinality(SucceededBefore(IdentityCommands, i)) = 2
        /\ Cardinality(SucceededBefore(HistoryCommands, i)) = 2
    /\ (\E i \in IdentityCommands \cup HistoryCommands : log[i].exit # 0)
        => Listings = {}

\* C19, amended: the selection comes first. Identity setup and history
\* preparation are run only after the workspace has been listed and the
\* selection has succeeded, identity before history, and both are complete
\* before the branch is created; a run whose selection fails configures no
\* identity and fetches nothing.
C19_SelectionBeforeSetup ==
    /\ \A i \in IdentityCommands \cup HistoryCommands :
        /\ crates # <<>>
        /\ SucceededBefore(Listings, i) # {}
    /\ \A i \in HistoryCommands : Cardinality(SucceededBefore(IdentityCommands, i)) = 2
    /\ \A i \in BranchCreations :
        /\ Cardinality(SucceededBefore(IdentityCommands, i)) = 2
        /\ Cardinality(SucceededBefore(HistoryCommands, i)) = 2
    /\ (pc = "failed" /\ crates = <<>>)
        => IdentityCommands = {} /\ HistoryCommands = {}

\* the identity setup fails after the workspace has been listed
C19_Witness ==
    /\ pc = "failed"
    /\ Len(log) = 2
    /\ log[1].cmd = <<"cargo", "workspaces", "list", "--json">> /\ log[1].exit = 0
    /\ log[2].cmd = <<"git", "config", "user.name">> /\ log[2].exit # 0
    /\ Len(crates) = 1

\* the selection fails and nothing has been set up
C19_WitnessSelectionFails ==
    /\ pc = "failed"
    /\ failures = <<"no matching crate found">>
    /\ IdentityCommands = {} /\ HistoryCommands = {}

\* the step of the run a command or request belongs to by what it is:
\* 1 Branch-Create, 2 Tool-Invocation, 3 Version-Reconciliation (a workspace
\* listing), 4 Optional-Verification, 5 Branch-Reconcile, 6 Publish,
\* 7 PR-Creation; 0 for the others
StepOfEntry(e) ==
    IF e.kind = "api" THEN (IF Len(e.cmd) = 3 THEN 7 ELSE 0)
    ELSE IF e.cmd[1] = "git" THEN
        CASE e.cmd[2] = "switch" -> 1
          [] e.cmd[2] = "branch" -> 5
          [] e.cmd[2] = "push" -> 6
          [] OTHER -> 0
    ELSE
        CASE e.cmd[2] \in {"metadata", "release", "check"} -> 2
          [] e.cmd[2] = "workspaces" -> 3
          [] e.cmd[2] \in {"semver-checks", "publish"} -> 4
          [] OTHER -> 0

\* the step of every entry of the log; the listing made before the branch
\* is created is the selection, not a step of these seven
Steps ==
    LET raw == [i \in 1..Len(log) |-> StepOfEntry(log[i])]
        created == {i \in 1..Len(log) : raw[i] = 1}
    IN [i \in 1..Len(log) |->
            IF raw[i] = 3 /\ \A j \in created : i < j THEN 0 ELSE raw[i]]

\* C20: the commands of the run come in the order of the steps
\* Branch-Create, Tool-Invocation, Version-Reconciliation,
\* Optional-Verification, Branch-Reconcile, Publish, PR-Creation, never
\* going back to an earlier step, so each step occurs at most once; a step
\* begins only when every command of the steps before it has succeeded (the
\* changes preview apart); the steps that are not optional have all
\* occurred before a later one begins; the pull request is requested only
\* after the push has succeeded.
C20_StepOrder ==
    LET st == Steps
        n == Len(log)
        at(step) == {i \in 1..n : st[i] = step}
    IN /\ \A i \in 1..(n - 1) : st[i] > 0 => st[i] <= st[i + 1]
       /\ \A i \in 1..n :
            (st[i] > 0 /\ st[i] < st[n])
                => (log[i].exit = 0 \/ IsChangesPreview(log[i]))
       /\ \A step \in {1, 3, 5, 6, 7} : Cardinality(at(step)) <= 1
       /\ n > 0 =>
            /\ st[n] >= 2 => at(1) # {}
            /\ st[n] >= 3 =>
                \E i \in at(2) : /\ log[i].exit = 0
                                 /\ Len(log[i].cmd) >= 3
                                 /\ log[i].cmd[3] \in {"commit", "--execute"}
            /\ st[n] >= 4 => at(3) # {} /\ newVersion # ""
            /\ st[n] >= 7 => at(6) # {}
       /\ \A j \in at(7) :
            /\ \E i \in at(6) : i < j /\ log[i].exit = 0
            /\ Len(remote) = 1

\* a run in which all seven steps occur
C20_Witness ==
    /\ pc = "done"
    /\ \A step \in 1..7 : \E i \in 1..Len(log) : Steps[i] = step
    /\ Len(crates) = 2

\* the events of a kind among those of a tool guard call
EventsOf(result, kind) == {i \in 1..Len(result.events) : result.events[i].e = kind}

\* the guard took the tool for present: it warned of nothing and installed
\* nothing
ReportedPresent(result) ==
    EventsOf(result, "warning") = {} /\ EventsOf(result, "exec") = {}

\* C21: the probe of the required tool reports present exactly when the
\* probe was launched and exited with code 0, and absent for a non-zero exit
\* code and for a probe that could not be launched; the probe never fails
\* the guard: an error comes out only of an installer that exited non-zero.
C21_ProbeResult ==
    called =>
        /\ ret.events[1].cmd = <<arg.tool, "--help">>
        /\ ret.events[1].outcome = arg.probe
        /\ ReportedPresent(ret) <=> (~arg.probe.threw /\ arg.probe.code = 0)
        /\ (arg.probe.threw \/ arg.probe.code # 0) => EventsOf(ret, "exec") # {}
        /\ ReportedPresent(ret) => ret.error = ""
        /\ ret.error # "" =>
            \E i \in EventsOf(ret, "exec") : ret.events[i].outcome.code # 0
        /\ (arg.exit = 0) => ret.error = ""

\* the probe could not be launched, the tool is installed, no error
C21_Witness ==
    /\ called
    /\ arg.probe.threw
    /\ ~ReportedPresent(ret)
    /\ arg.exit = 0 /\ ret.error = ""

C21_WitnessPresent ==
    called /\ ~arg.probe.threw /\ arg.probe.code = 0 /\ ReportedPresent(ret)

\* C22: when the probe of the required tool succeeds the guard emits no
\* warning and runs no install command; when it fails the guard emits one
\* warning, right after the probe: before the probe of cargo-binstall and
\* before the install command.
C22_WarningFirst ==
    called =>
        IF ProbeSucceeded(ret.events[1])
            THEN EventsOf(ret, "warning") = {} /\ EventsOf(ret, "exec") = {}
        ELSE /\ EventsOf(ret, "warning") = {2}
             /\ ret.events[2].cmd
                    = <<arg.tool \o " is not available, attempting to install it">>
             /\ EventsOf(ret, "exec") # {}
             /\ \A i \in EventsOf(ret, "exec") : 2 < i
             /\ \A i \in EventsOf(ret, "probe") :
                    ret.events[i].cmd = <<"cargo-binstall", "--help">> => 2 < i

C22_Witness ==
    /\ called
    /\ arg.tool = "cargo-release"
    /\ arg.probe.code = 1
    /\ Len(ret.events) = 4
    /\ ret.events[2].e = "warning"
    /\ ret.events[4].cmd = <<"cargo", "install", "cargo-release">>

C22_WitnessPresent ==
    called /\ ProbeSucceeded(ret.events[1]) /\ Len(ret.events) = 1

\* the subcommands of the newer style, in the order the claim gives them
NewStyleOrder == <<"changes", "version", "check", "replace", "hook", "commit">>

\* which subcommand of the newer style a log entry is, "" for none
NewStyleTag(e) ==
    IF e.kind # "exec" \/ e.cmd[1] # "cargo" THEN ""
    ELSE IF e.cmd = <<"cargo", "check">> THEN "check"
    ELSE IF e.cmd[2] = "release" /\ e.cmd[3] \in {"changes", "version", "replace",
                                                    "hook", "commit"}
        THEN e.cmd[3]
    ELSE ""

\* C23: the subcommands of the newer style are run one after the other in
\* the order changes, version, check, replace, hook, commit, each at most
\* once; a changes preview that exits non-zero is followed by the version
\* bump all the same; any of the other five that exits non-zero is the last
\* command of the run, which has failed: no later subcommand, no read-back,
\* no push and no pull request.
C23_NewStyleSubcommands ==
    LET n == Len(log)
        at == {i \in 1..n : NewStyleTag(log[i]) # ""}
        first == IF at = {} THEN 0 ELSE Min(at)
    IN /\ Cardinality(at) <= Len(NewStyleOrder)
       /\ \A i \in at :
            /\ i - first < Len(NewStyleOrder)
            /\ NewStyleTag(log[i]) = NewStyleOrder[i - first + 1]
            /\ \A j \in first..i : j \in at
            /\ (log[i].exit # 0 /\ NewStyleTag(log[i]) = "changes") =>
                IF i = n THEN pc = "release.bump"
                ELSE NewStyleTag(log[i + 1]) = "version"
            /\ (log[i].exit # 0 /\ NewStyleTag(log[i]) # "changes") =>
                /\ i = n
                /\ pc = "failed"
                /\ newCrates = <<>> /\ newVersion = ""
                /\ Cardinality(Listings) <= 1
                /\ Pushes = {} /\ remote = <<>>
                /\ PrRequests = {} /\ prs = <<>>

\* the changes preview fails and all six subcommands are run
C23_Witness ==
    /\ pc = "done"
    /\ \E i \in 1..(Len(log) - 5) :
        /\ log[i].cmd = <<"cargo", "release", "changes">> /\ log[i].exit # 0
        /\ \A k \in 1..6 : NewStyleTag(log[i + k - 1]) = NewStyleOrder[k]

\* the hook fails and nothing follows
C23_WitnessAbort ==
    /\ pc = "failed"
    /\ Len(log) > 0
    /\ NewStyleTag(log[Len(log)]) = "hook" /\ log[Len(log)].exit # 0
    /\ Pushes = {}

\* the reported version is a major.minor.patch of at least 0.23.0
C24_AtLeastMin == Len(arg) = 3 /\ (arg[1] >= 1 \/ arg[2] >= 23)

\* C24: the style is chosen once from the reported version and is one of
\* the two: the newer style exactly when the report parses as a
\* major.minor.patch version of at least 0.23.0, the older style for every
\* lower version and for every report that does not parse.
C24_StyleChoice ==
    called =>
        /\ ret \in {"release.changes", "release.old"}
        /\ ret = "release.changes" <=> C24_AtLeastMin
        /\ ret = "release.old" <=> ~C24_AtLeastMin

C24_Witness ==
    called /\ arg = <<0, 23, 0>> /\ ret = "release.changes"

C24_WitnessLower ==
    called /\ arg = <<0, 22, 1>> /\ ret = "release.old"

C24_WitnessUnparsed ==
    called /\ arg = <<0, 24>> /\ ret = "release.old"

\* positions of the --allow-branch flag in a command
AllowFlags(cmd) == {k \in 1..Len(cmd) : cmd[k] = "--allow-branch"}

\* C25: every release-tool command of the run that carries an allow-branch
\* list (the version bump of the newer style, the single command of the
\* older style) carries exactly one --allow-branch flag, followed by the
\* name the branch was created under, computed from the desired version;
\* that branch was created with success and no rename has been issued
\* before the command, so it is the current branch; the version bump and
\* the old-style command always carry the flag.
C25_AllowBranch ==
    LET created == {i \in BranchCreations : log[i].exit = 0}
    IN \A i \in ReleaseSubcommands :
        /\ log[i].cmd[3] \in {"version", "--execute"} <=> AllowFlags(log[i].cmd) # {}
        /\ \A k \in AllowFlags(log[i].cmd) :
            /\ AllowFlags(log[i].cmd) = {k}
            /\ k < Len(log[i].cmd)
            /\ log[i].cmd[k + 1] = C2_NameFor(inputs.version)
            /\ \E j \in created : j < i /\ log[j].cmd[4] = log[i].cmd[k + 1]
            /\ \A j \in Renames : i < j

\* a run that ends under the renamed branch released under the created one
C25_Witness ==
    /\ pc = "done"
    /\ head = "release/widget/1.3.0"
    /\ \E i \in Issued(<<"cargo", "release", "version">>) :
        log[i].cmd[8] = "--allow-branch" /\ log[i].cmd[9] = "release/widget/minor"

C25_WitnessOld ==
    /\ pc = "done"
    /\ head = "release/all/2.0.0"
    /\ \E i \in Issued(<<"cargo", "release", "--execute">>) :
        log[i].cmd[9] = "--allow-branch" /\ log[i].cmd[10] = "release/all/minor"

PackageChecks == Issued(<<"cargo", "publish", "--dry-run">>)

\* C26 as stated: with check-package set, the publish dry-run is run once
\* for each selected package, in that package's own path, and a dry-run that
\* exits non-zero ends the run before the push.
C26_PackageCheckInPackagePath ==
    /\ ~inputs.checkPackage => PackageChecks = {}
    /\ Cardinality(PackageChecks) <= Len(crates)
    /\ \A i \in PackageChecks :
        LET k == Cardinality({j \in PackageChecks : j <= i})
        IN /\ log[i].cmd = <<"cargo", "publish", "--dry-run", "-p", crates[k].name>>
           /\ log[i].cwd = crates[k].path
           /\ log[i].exit # 0 => pc = "failed" /\ Pushes = {} /\ PrRequests = {}
    /\ (inputs.checkPackage /\ (pc \in {"rename", "push", "makePR", "done"} \/ Pushes # {}))
        => Cardinality(PackageChecks) = Len(crates)

\* C26, what main does: the dry-run is run once for each selected package,
\* named with -p, with no working directory of its own (it runs where the
\* action runs); a dry-run that exits non-zero ends the run before the push.
C26_PackageCheckInProcessCwd ==
    /\ ~inputs.checkPackage => PackageChecks = {}
    /\ Cardinality(PackageChecks) <= Len(crates)
    /\ \A i \in PackageChecks :
        LET k == Cardinality({j \in PackageChecks : j <= i})
        IN /\ log[i].cmd = <<"cargo", "publish", "--dry-run", "-p", crates[k].name>>
           /\ log[i].cwd = <<>>
           /\ log[i].exit # 0 => pc = "failed" /\ Pushes = {} /\ PrRequests = {}
    /\ (inputs.checkPackage /\ (pc \in {"rename", "push", "makePR", "done"} \/ Pushes # {}))
        => Cardinality(PackageChecks) = Len(crates)

\* the dry-run of a package that is not at the root of the checkout
C26_Witness ==
    /\ inputs.checkPackage
    /\ Len(crates) = 1 /\ crates[1].path = <<"/", "ws", "crates", "gadget">>
    /\ \E i \in PackageChecks :
        /\ log[i].cmd = <<"cargo", "publish", "--dry-run", "-p", "gadget">>
        /\ log[i].cwd # crates[1].path

\* the selector's path made absolute against the working directory /ws,
\* written out for each path of the selectors
C27_Absolute ==
    CASE arg.sel.path = <<".">> -> <<"/", "ws">>
      [] arg.sel.path = <<"crates", "gadget">> -> <<"/", "ws", "crates", "gadget">>
      [] arg.sel.path = <<"/", "ws", "crates", "gadget">> -> <<"/", "ws", "crates", "gadget">>
      [] arg.sel.path = <<"crates", "gadget", "..", "sprocket">>
            -> <<"/", "ws", "crates", "sprocket">>
      [] arg.sel.path = <<"nowhere">> -> <<"/", "ws", "nowhere">>
      [] OTHER -> <<>>

\* positions of the packages the selector's name or path matches
C27_Hits ==
    {i \in 1..Len(arg.snap) :
        \/ arg.sel.name # "" /\ arg.snap[i].name = arg.sel.name
        \/ arg.sel.path # <<>> /\ arg.snap[i].path = C27_Absolute}

\* C27: when the selector gives a name and/or a path and some package has
\* that name or lies at that path (made absolute against the working
\* directory), resolve returns exactly one package, the first such package
\* in snapshot order; the result is the same with releaseAll set and unset.
C27_FirstMatchWins ==
    (called /\ (arg.sel.name # "" \/ arg.sel.path # <<>>))
        => /\ C27_Hits # {} =>
                /\ ret.ok
                /\ ret.crates = <<arg.snap[Min(C27_Hits)]>>
           /\ C27_Hits = {} => ~ret.ok /\ ret.crates = <<>>
           /\ ret = findCratesIn(arg.snap, [arg.sel EXCEPT !.releaseAll = ~@])

\* a relative path with a .. in it finds the third package of the listing,
\* releaseAll being set
C27_Witness ==
    /\ called
    /\ arg.sel.name = "" /\ arg.sel.path = <<"crates", "gadget", "..", "sprocket">>
    /\ arg.sel.releaseAll
    /\ Len(arg.snap) = 3 /\ arg.snap[3].name = "sprocket"
    /\ ret.ok /\ ret.crates = <<arg.snap[3]>>

C27_WitnessNameOrPath ==
    /\ called
    /\ arg.sel.name = "gadget" /\ arg.sel.path = <<".">>
    /\ Len(arg.snap) = 3 /\ arg.snap[2].name = "widget" /\ arg.snap[3].name = "gadget"
    /\ ret.ok /\ ret.crates = <<arg.snap[2]>>

\* the run is inside the Package Resolver (pkgid), called by findCrates or
\* by the read-back
InResolver == pc \in {"findCrates", "findCrates.list", "readBack", "readBack.list"}

\* the latest tool guard call was the resolver's
ResolverGuard == guard.tool = "cargo-workspaces"

\* C28 as stated: the resolver never installs a tool.
C28_ResolverInstallsNothing ==
    ResolverGuard => GuardInstalls = {}

\* C28, amended: a step of the resolver changes neither the checkout (the
\* packages on disk, the branch checked out), nor the remote, nor the pull
\* requests, nor the inputs, and the only command it adds to the log is the
\* workspace listing; but the resolver makes sure of cargo-workspaces first,
\* and installs it, with one install command, when its probe fails.
C28_ResolverFrame ==
    /\ [][InResolver =>
            /\ UNCHANGED <<disk, head, remote, prs, inputs>>
            /\ \/ log' = log
               \/ /\ Len(log') = Len(log) + 1
                  /\ SubSeq(log', 1, Len(log)) = log
                  /\ log'[Len(log')].cmd = <<"cargo", "workspaces", "list", "--json">>]_vars
    /\ [](ResolverGuard =>
            /\ Cardinality(GuardInstalls) <= 1
            /\ GuardInstalls # {} <=> ~ProbeSucceeded(guard.events[1])
            /\ \A i \in GuardInstalls :
                guard.events[i].cmd \in
                    {<<"cargo", "binstall", "--no-confirm", "cargo-workspaces">>,
                     <<"cargo", "install", "cargo-workspaces">>})

\* the resolver has installed cargo-workspaces and goes on to the listing
C28_Witness ==
    /\ pc = "findCrates.list"
    /\ ResolverGuard
    /\ GuardInstalls # {}
    /\ guard.events[4].cmd = <<"cargo", "install", "cargo-workspaces">>
    /\ guard.events[4].outcome.code = 0

\* the names of the packages of a workspace listing
NamesIn(snap) == {snap[i].name : i \in 1..Len(snap)}

\* C29: with more than one package, no name, no path and releaseAll unset,
\* the error resolve fails with names every package of the snapshot: the
\* error then tells the packages' names, so no snapshot of other names
\* fails with the same error.
C29_ErrorNamesPackages ==
    (called /\ Len(arg.snap) > 1 /\ NoSelector /\ ~arg.sel.releaseAll)
        => /\ ~ret.ok
           /\ \A other \in Snapshots :
                (Len(other) > 1 /\ NamesIn(other) # NamesIn(arg.snap))
                    => findCratesIn(other, arg.sel).error # ret.error

\* a three-package workspace fails with the text every such workspace gets
C29_Witness ==
    /\ called /\ Len(arg.snap) = 3 /\ NoSelector /\ ~arg.sel.releaseAll
    /\ ~ret.ok
    /\ ret.error = "multiple crates in the workspace, but crate-release-all is false"
    /\ \E other \in Snapshots :
            /\ Len(other) = 2
            /\ findCratesIn(other, arg.sel).error = ret.error

\* C30: the failure report follows the shape of the failure value: the
\* message of a structured error, the text of a plain string, and the fixed
\* text 'An unknown error has occurred' for any other value.
C30_FailureReportShapes ==
    called =>
        /\ arg.isError => ret = arg.message
        /\ (~arg.isError /\ arg.type = "string") => ret = arg.text
        /\ (~arg.isError /\ arg.type # "string")
                => ret = "An unknown error has occurred"

\* a plain object that has a message but is no error is an unknown failure
C30_Witness ==
    /\ called
    /\ ~arg.isError /\ arg.type = "object" /\ arg.message = "Not Found"
    /\ ret = "An unknown error has occurred"

C30_WitnessError ==
    called /\ arg.isError /\ arg.message = "Validation Failed" /\ ret = "Validation Failed"

C30_WitnessString ==
    /\ called /\ arg.type = "string" /\ arg.text = "git exited with code 128"
    /\ ret = "git exited with code 128"

\* positions of the commands that set the new version: the new style's
\* `cargo release version` and the old style's `cargo release --execute`
VersionBumps ==
    Issued(<<"cargo", "release", "version">>) \cup Issued(<<"cargo", "release", "--execute">>)

\* the version a bump command asks for
BumpVersion(cmd) == IF cmd[3] = "version" THEN cmd[4] ELSE cmd[Len(cmd)]

\* C31: the version is bumped by one release-tool invocation carrying the
\* desired version, however many packages are selected; once the release
\* is through (the read-back listing has been issued) the release tool has
\* been invoked twice in the old style and six times in the new one,
\* whatever the number of packages.
C31_SingleBump ==
    /\ Cardinality(VersionBumps) <= 1
    /\ \A i \in VersionBumps : BumpVersion(log[i].cmd) = inputs.version
    /\ Cardinality(Listings) = 2
        => /\ Cardinality(VersionBumps) = 1
           /\ Cardinality(ReleaseCommands)
                = IF Issued(<<"cargo", "release", "version">>) # {} THEN 6 ELSE 2

\* a release of two packages, through in the new style
C31_Witness ==
    /\ pc = "done"
    /\ Len(crates) = 2
    /\ Cardinality(Issued(<<"cargo", "release", "version">>)) = 1
    /\ Cardinality(ReleaseCommands) = 6
    /\ \A i \in 1..Len(disk) : disk[i].version = "1.3.0"

C31_WitnessOld ==
    /\ pc = "done"
    /\ Len(crates) = 2
    /\ Cardinality(Issued(<<"cargo", "release", "--execute">>)) = 1
    /\ Cardinality(ReleaseCommands) = 2

\* C32: the post-release version comes from a workspace listing issued
\* after the release tool has finished: once the read-back has selected
\* packages, a second listing has succeeded after every release command,
\* and the packages read back are those of the checkout as the release
\* left it, not those selected before the release.
C32_FreshReadBack ==
    newCrates # <<>> =>
        /\ Cardinality(Listings) = 2
        /\ \E i \in Listings :
            /\ log[i].exit = 0
            /\ VersionBumps # {}
            /\ \A j \in ReleaseCommands : j < i /\ (j \in VersionBumps => log[j].exit = 0)
        /\ newCrates = pkgidSelect(disk, readBackArgs(crates)).crates
        /\ newVersion \in {"", newCrates[1].version}

\* the version read back is the one the release left, not the selected one
C32_Witness ==
    /\ pc = "done"
    /\ crates[1].version = "1.2.3"
    /\ disk[1].version = "2.0.0"
    /\ newCrates[1].version = "2.0.0"
    /\ newVersion = "2.0.0"

\* the inputs set releaseAll together with a name or a path
C33_Conflict ==
    inputs.crate.releaseAll /\ (inputs.crate.name # "" \/ inputs.crate.path # <<>>)

\* C33: inputs with releaseAll set together with a non-empty name or path
\* are rejected by the validation: the run goes from getInputs straight to
\* its failure, reported with a validation message, and the resolver is
\* never run for them (no tool probe, no workspace listing, no selection).
C33_ExclusiveSelector ==
    C33_Conflict =>
        /\ pc \in {"getInputs", "failed"}
        /\ pc = "failed" =>
            /\ Len(failures) = 1
            /\ versionMatches(toLowerCase(CharsOf(inputs.version)))
                => failures[1] = ExclusiveMessage
        /\ guard = NoGuard
        /\ Listings = {}
        /\ log = <<>>
        /\ crates = <<>>

C33_Witness ==
    /\ pc = "failed"
    /\ inputs.crate.releaseAll /\ inputs.crate.name = "widget" /\ inputs.crate.path = <<>>
    /\ inputs.version = "minor"
    /\ failures = <<ExclusiveMessage>>
    /\ log = <<>>

C33_WitnessPath ==
    /\ pc = "failed"
    /\ inputs.crate.releaseAll /\ inputs.crate.name = ""
    /\ inputs.crate.path = <<"crates", "gadget">>
    /\ failures = <<ExclusiveMessage>>

\* three runs of digits with a full stop between them, then nothing or a
\* suffix that opens with "-" or "+"
SemverShaped(chars) ==
    \E i, j, k \in 1..Len(chars) :
        /\ 1 < i /\ i + 1 < j /\ j < k
        /\ chars[i] = "." /\ chars[j] = "."
        /\ \A n \in 1..k : n \notin {i, j} => chars[n] \in Digits
        /\ k < Len(chars) => chars[k + 1] \in {"-", "+"}

\* a version the schema has no place for, once put in lower case
C34_BadVersion(version) ==
    LET chars == toLowerCase(CharsOf(version))
    IN ~(textOf(chars) \in {"release", "patch", "minor", "major", "alpha", "beta", "rc"}
         \/ SemverShaped(chars))

\* the inputs that the validation has to turn down
C34_Invalid ==
    \/ C34_BadVersion(inputs.version)
    \/ C33_Conflict
    \/ inputs.pr.template # "" /\ inputs.pr.templateFile # ""

C34_WitnessTemplate ==
    /\ pc = "failed"
    /\ inputs.version = "minor"
    /\ ~C33_Conflict
    /\ failures = <<"template and templateFile are mutually exclusive">>
    /\ log = <<>>

\* an upper-case level is put in lower case and released as the level
C34_WitnessLowercase ==
    /\ pc = "done"
    /\ \E i \in VersionBumps : BumpVersion(log[i].cmd) = "minor"
    /\ inputs.version = "minor"

C34_WitnessLiteral ==
    /\ pc = "done"
    /\ \E i \in VersionBumps : BumpVersion(log[i].cmd) = "1.3.0"

\* the run has got as far as the push
ReachedPush == pc \in {"push", "makePR", "done"} \/ Pushes # {}

\* prefix, package token and version read back, with the separator between
C35_Name ==
    inputs.git.branchPrefix \o inputs.git.branchSeparator
        \o (IF Len(crates) = 1 THEN crates[1].name ELSE "all")
        \o inputs.git.branchSeparator \o newVersion

\* C35: in a run that reaches the push, the branch name the run holds, the
\* branch checked out and the branch of every push and of the pr-branch
\* output are the name built from the version read back after the release;
\* without a rename that is the name the branch was created with.
C35_FinalBranchName ==
    ReachedPush =>
        /\ branchName = C35_Name
        /\ head = C35_Name
        /\ \A i \in Pushes : log[i].cmd = <<"git", "push", "origin", C35_Name>>
        /\ \A k \in 1..Len(outputs) :
            outputs[k].name = "pr-branch" => outputs[k].value = C35_Name
        /\ Renames = {} =>
            \E i \in BranchCreations : log[i].exit = 0 /\ log[i].cmd[4] = C35_Name

\* the branch was created for "minor" and pushed under the version read back
C35_Witness ==
    /\ pc = "done"
    /\ Renames # {}
    /\ \E i \in BranchCreations : log[i].cmd[4] = "release/all/minor"
    /\ remote = <<"release/all/2.0.0">>

C35_WitnessNoRename ==
    /\ pc = "done"
    /\ Renames = {}
    /\ newVersion = "1.3.0"
    /\ remote = <<"release/widget/1.3.0">>

\* the version the checkout now holds for the first selected package
C36_OnDisk ==
    LET at == {i \in 1..Len(disk) : disk[i].name = crates[1].name}
    IN disk[Min(at)].version

\* C36: every pull request created is rendered with the version triple
\* whose previous is the version the first selected package had when it
\* was selected, whose actual is the version read back after the release
\* and whose desired is the version input; actual differs from previous.
C36_VersionTriple ==
    \A k \in 1..Len(prs) :
        LET version == prs[k].vars.version
        IN /\ version.previous = crates[1].version
           /\ version.actual = newVersion
           /\ version.actual = C36_OnDisk
           /\ version.desired = inputs.version
           /\ version.actual # version.previous
           /\ \E i \in VersionBumps : BumpVersion(log[i].cmd) = version.desired

\* the three versions differ from one another
C36_Witness ==
    /\ Len(prs) = 1
    /\ Len(crates) = 2
    /\ prs[1].vars.version = [previous |-> "1.2.3", actual |-> "2.0.0", desired |-> "1.3.0"]

C36_WitnessLevel ==
    /\ Len(prs) = 1
    /\ prs[1].vars.version = [previous |-> "1.2.3", actual |-> "1.3.0", desired |-> "minor"]

\* the optional checks, the rename or the push have been started
PastReconciliation ==
    \/ pc \in {"semver", "semver.check", "package", "rename", "push", "makePR", "done"}
    \/ SemverChecks # {} \/ PackageChecks # {} \/ Renames # {} \/ Pushes # {}

\* C37: pr-url is set only in a run that has ended without failure, every
\* command of which but the changes preview succeeded.  version is set
\* exactly when the read-back found a new version, so it is there before
\* any optional check, rename or push, and stays when one of these fails;
\* pr-branch is set exactly when a push has been attempted, whether or not
\* the push succeeded.
C37_OutputsAndFailure ==
    /\ OutputsOf("pr-url") # <<>> =>
        /\ pc = "done" /\ failures = <<>>
        /\ \A i \in 1..Len(log) : log[i].exit # 0 => IsChangesPreview(log[i])
        /\ Len(outputs) = 3 /\ outputs[3].name = "pr-url"
    /\ OutputsOf("version") # <<>> <=> newVersion # ""
    /\ PastReconciliation => (Len(outputs) >= 1 /\ outputs[1].name = "version")
    /\ OutputsOf("pr-branch") # <<>> <=> Pushes # {}
    /\ Pushes # {} => (Len(outputs) >= 2 /\ outputs[2].name = "pr-branch")

\* the push failed: the run has failed with version and pr-branch set
C37_Witness ==
    /\ pc = "failed"
    /\ Len(outputs) = 2
    /\ outputs[1].name = "version" /\ outputs[2].name = "pr-branch"
    /\ Len(log) > 0
    /\ log[Len(log)].cmd[2] = "push" /\ log[Len(log)].exit # 0
    /\ remote = <<>>

\* a semver check failed: the run has failed with version set
C37_WitnessVersionOnly ==
    /\ pc = "failed"
    /\ Len(outputs) = 1 /\ outputs[1].name = "version"
    /\ Len(log) > 0
    /\ log[Len(log)].cmd[2] = "semver-checks" /\ log[Len(log)].exit # 0

\* the pull request could not be created: no pr-url
C37_WitnessNoUrl ==
    /\ pc = "failed"
    /\ Len(outputs) = 2
    /\ remote # <<>>
    /\ failures = <<"Validation Failed">>

\* the read-back listing has been obtained
ReadBackListed ==
    Cardinality(Listings) = 2 /\ \A i \in Listings : log[i].exit = 0

\* positions of the packages of the checkout whose version is not the first's
DiskDivergent == {i \in 1..Len(disk) : disk[i].version # disk[1].version}

\* C38: when several packages are selected, the read-back applies the
\* all-versions-identical rule to the checkout the release left: differing
\* versions fail the run with the error of the first divergent package,
\* with no version read, no push and no pull request; identical versions
\* are then compared through the first package only, its new version
\* against its old one.
C38_ReadBackAllIdentical ==
    (Len(crates) > 1 /\ ReadBackListed) =>
        IF DiskDivergent # {} THEN
            LET bad == disk[Min(DiskDivergent)]
            IN /\ pc = "failed"
               /\ failures = <<"multiple crates with different versions: crate="
                                \o bad.name \o " version=" \o bad.version
                                \o " expected=" \o disk[1].version>>
               /\ newCrates = <<>> /\ newVersion = "" /\ outputs = <<>>
               /\ Pushes = {} /\ remote = <<>> /\ prs = <<>>
        ELSE IF disk[1].version = crates[1].version THEN
            /\ pc = "failed"
            /\ failures = <<"New and old versions are identical, not proceeding">>
            /\ newVersion = ""
            /\ Pushes = {} /\ remote = <<>> /\ prs = <<>>
        ELSE
            /\ newCrates = disk
            /\ newVersion = disk[1].version

\* the release tool bumped the first package only
C38_Witness ==
    /\ pc = "failed"
    /\ Len(crates) = 2
    /\ ReadBackListed
    /\ disk[1].version = "2.0.0" /\ disk[2].version = "1.2.3"
    /\ failures = <<"multiple crates with different versions: crate=gadget version=1.2.3 expected=2.0.0">>
    /\ remote = <<>> /\ prs = <<>>

C38_WitnessIdentical ==
    /\ pc = "failed"
    /\ Len(crates) = 2
    /\ ReadBackListed
    /\ DiskDivergent = {}
    /\ failures = <<"New and old versions are identical, not proceeding">>

C38_WitnessReleased ==
    /\ pc = "done"
    /\ Len(crates) = 2
    /\ newVersion = "1.3.0"
    /\ DiskDivergent = {}

====
